---- MODULE Spec2Model ----
(***************************************************************************)
(* A model of the ProfanityGuard engine of packages/profanity-guard        *)
(* (src/packages/profanity-guard/src/main.ts).                             *)
(*                                                                         *)
(* Strings are sequences of one-character strings.  Positions are the      *)
(* zero-based offsets of the source: the character at offset p of a text   *)
(* s is s[p + 1].                                                          *)
(***************************************************************************)
EXTENDS Integers, Sequences, FiniteSets, TLC

(***************************************************************************)
(* Bounds of the model.                                                    *)
(***************************************************************************)
MaxLen == 3

(***************************************************************************)
(* Enumerations (type.ts).                                                 *)
(***************************************************************************)
ModerationLevel == {"off", "relaxed", "moderate", "strict"}

WordSeverity == {"mild", "moderate", "severe", "absolutely not"}

\* The value a field has when it holds null / undefined.
Null == "null"

(***************************************************************************)
(* Characters.                                                             *)
(***************************************************************************)
LowerLetters ==
    << "a", "b", "c", "d", "e", "f", "g", "h", "i", "j", "k", "l", "m",
       "n", "o", "p", "q", "r", "s", "t", "u", "v", "w", "x", "y", "z" >>

UpperLetters ==
    << "A", "B", "C", "D", "E", "F", "G", "H", "I", "J", "K", "L", "M",
       "N", "O", "P", "Q", "R", "S", "T", "U", "V", "W", "X", "Y", "Z" >>

Digits == {"0", "1", "2", "3", "4", "5", "6", "7", "8", "9"}

Range(s) == {s[i] : i \in 1..Len(s)}

LowerSet == Range(LowerLetters)

UpperSet == Range(UpperLetters)

LowerOf == [c \in UpperSet |-> LowerLetters[CHOOSE i \in 1..26 : UpperLetters[i] = c]]

UpperOf == [c \in LowerSet |-> UpperLetters[CHOOSE i \in 1..26 : LowerLetters[i] = c]]

\* String.prototype.toLowerCase on one character.
CharToLowerCase(c) == IF c \in UpperSet THEN LowerOf[c] ELSE c

\* String.prototype.toUpperCase on one character; also the Canonicalize of a
\* regular expression with the i flag and without the u flag.
CharToUpperCase(c) == IF c \in LowerSet THEN UpperOf[c] ELSE c

toLowerCase(s) == [i \in 1..Len(s) |-> CharToLowerCase(s[i])]

\* [a-zA-Z0-9]
Alphanumerics == LowerSet \cup UpperSet \cup Digits

IsAlphanumeric(c) == c \in Alphanumerics

\* \w
IsWordChar(c) == IsAlphanumeric(c) \/ c = "_"

\* \s restricted to the characters of the model.
IsSpace(c) == c = " "

\* The separator class written [\W\s]: the underscore, a word character, is
\* left out.
IsSeparatorWithoutUnderscore(c) == ~IsWordChar(c) \/ IsSpace(c)

\* [\W_\s], the separator class joined between the letters of a word.
IsSeparator(c) == ~IsWordChar(c) \/ c = "_" \/ IsSpace(c)

\* The ASCII members of the substitution class of each letter; the other
\* members are homoglyphs outside ASCII, which no text of the model holds.
substitutions ==
    [l \in LowerSet |->
        CASE l = "a" -> {"a", "@", "4", "^"}
          [] l = "b" -> {"b", "6", "8", "|", "3"}
          [] l = "c" -> {"c"}
          [] l = "d" -> {"d"}
          [] l = "e" -> {"e", "3"}
          [] l = "f" -> {"f"}
          [] l = "g" -> {"g", "6", "9"}
          [] l = "h" -> {"h", "#"}
          [] l = "i" -> {"i", "1", "!", "|"}
          [] l = "j" -> {"j"}
          [] l = "k" -> {"k", "|", "<"}
          [] l = "l" -> {"l", "1", "!", "|"}
          [] l = "m" -> {"m"}
          [] l = "n" -> {"n"}
          [] l = "o" -> {"o", "0", "(", ")", "[", "]", "{", "}"}
          [] l = "p" -> {"p"}
          [] l = "q" -> {"q", "9"}
          [] l = "r" -> {"r"}
          [] l = "s" -> {"s", "$", "5", "z"}
          [] l = "t" -> {"t", "7", "+"}
          [] l = "u" -> {"u"}
          [] l = "v" -> {"v"}
          [] l = "w" -> {"w", "v"}
          [] l = "x" -> {"x"}
          [] l = "y" -> {"y"}
          [] l = "z" -> {"z", "2"}]

\* The class [sѕ$5zʂ] of the optional plural suffix.
PluralClass == {"s", "$", "5", "z"}

\* The test of a character against a class without the i flag: the
\* character as it stands is looked up.
ClassMatchesCaseSensitive(class, c) == c \in class

\* A character class under the i flag holds the canonical forms of its
\* members, and a character matches when its canonical form is among them.
Canonical(class) == {CharToUpperCase(m) : m \in class}

ClassMatches(class, c) == CharToUpperCase(c) \in class

(***************************************************************************)
(* createWordPattern: the pattern of a word is the sequence of the         *)
(* character classes of its characters.  A word without an alphanumeric    *)
(* character is matched literally, with no separators and no plural.       *)
(***************************************************************************)
hasAlphanumeric(word) == \E i \in 1..Len(word) : IsAlphanumeric(word[i])

CharClass(char) ==
    IF CharToLowerCase(char) \in DOMAIN substitutions
    THEN substitutions[CharToLowerCase(char)]
    ELSE {char, CharToLowerCase(char), CharToUpperCase(char)}

createWordPattern(word) ==
    IF ~hasAlphanumeric(word)
    THEN [obfuscated |-> FALSE,
          classes |-> [i \in 1..Len(word) |-> Canonical({word[i]})]]
    ELSE [obfuscated |-> TRUE,
          classes |-> [i \in 1..Len(word) |-> Canonical(CharClass(word[i]))]]

(***************************************************************************)
(* The matcher of the regular expression                                   *)
(*   (?:^|\b|[^a-zA-Z0-9])(body(?:[\W_\s]*plural)?)(?:$|\b|[^a-zA-Z0-9])    *)
(* as a backtracking engine runs it: the alternatives in the order they    *)
(* are written, the stars and the optional group greedy.                   *)
(***************************************************************************)
NoMatch == [found |-> FALSE]

\* \b at offset p of the text.
WordBoundary(content, p) ==
    LET before == p >= 1 /\ IsWordChar(content[p])
        after == p < Len(content) /\ IsWordChar(content[p + 1])
    IN  before # after

\* The number of separator characters from offset p on.
RECURSIVE SeparatorRun(_, _)
SeparatorRun(content, p) ==
    IF p < Len(content) /\ IsSeparator(content[p + 1])
    THEN 1 + SeparatorRun(content, p + 1)
    ELSE 0

\* The offsets, in the order backtracking tries them, after j = hi, hi-1, .., 0
\* separators from offset p.
RECURSIVE Descending(_, _)
Descending(p, hi) == IF hi < 0 THEN << >> ELSE << p + hi >> \o Descending(p, hi - 1)

RECURSIVE BodyEnds(_, _, _, _)
RECURSIVE BodyEndsFrom(_, _, _, _)
\* The end offsets, in backtracking order, of the classes k.. of the pattern
\* matched from offset p.
BodyEnds(pat, content, k, p) ==
    IF k > Len(pat.classes) THEN << p >>
    ELSE IF p >= Len(content) \/ ~ClassMatches(pat.classes[k], content[p + 1]) THEN << >>
    ELSE IF k = Len(pat.classes) THEN << p + 1 >>
    ELSE BodyEndsFrom(pat, content, k + 1,
            Descending(p + 1, IF pat.obfuscated THEN SeparatorRun(content, p + 1) ELSE 0))

BodyEndsFrom(pat, content, k, starts) ==
    IF starts = << >> THEN << >>
    ELSE BodyEnds(pat, content, k, Head(starts)) \o BodyEndsFrom(pat, content, k, Tail(starts))

\* The optional plural suffix after a body ending at e: with the suffix first.
RECURSIVE PluralAfter(_, _)
PluralAfter(content, starts) ==
    IF starts = << >> THEN << >>
    ELSE (IF Head(starts) < Len(content)
             /\ ClassMatches(Canonical(PluralClass), content[Head(starts) + 1])
          THEN << Head(starts) + 1 >> ELSE << >>) \o PluralAfter(content, Tail(starts))

PluralEnds(pat, content, e) ==
    IF pat.obfuscated
    THEN PluralAfter(content, Descending(e, SeparatorRun(content, e))) \o << e >>
    ELSE << e >>

RECURSIVE GroupEnds(_, _, _)
GroupEnds(pat, content, bodyEnds) ==
    IF bodyEnds = << >> THEN << >>
    ELSE PluralEnds(pat, content, Head(bodyEnds)) \o GroupEnds(pat, content, Tail(bodyEnds))

\* (?:$|\b|[^a-zA-Z0-9]) at offset e: the end of the whole match, or -1.
TrailEnd(content, e) ==
    IF e = Len(content) \/ WordBoundary(content, e) THEN e
    ELSE IF e < Len(content) /\ ~IsAlphanumeric(content[e + 1]) THEN e + 1
    ELSE -1

\* The group ending at groupEnd with the trailing anchor ending at end, or
\* the next attempt when the anchor failed.
TrailOr(groupEnd, end, next) ==
    IF end >= 0 THEN [found |-> TRUE, groupEnd |-> groupEnd, end |-> end] ELSE next

RECURSIVE FirstTrail(_, _)
\* The first group end after which the trailing anchor matches.
FirstTrail(content, ends) ==
    IF ends = << >> THEN NoMatch
    ELSE TrailOr(Head(ends), TrailEnd(content, Head(ends)), FirstTrail(content, Tail(ends)))

\* The group and the trailing anchor with the group starting at offset g.
GroupAt(pat, content, g) ==
    FirstTrail(content, GroupEnds(pat, content, BodyEnds(pat, content, 1, g)))

\* The whole expression tried at offset s: ^ and \b consume nothing,
\* [^a-zA-Z0-9] consumes one character.
LeadingAnchor(s, zero, one) ==
    IF zero.found
    THEN [found |-> TRUE, index |-> s, groupStart |-> s,
          groupEnd |-> zero.groupEnd, end |-> zero.end]
    ELSE IF one.found
    THEN [found |-> TRUE, index |-> s, groupStart |-> s + 1,
          groupEnd |-> one.groupEnd, end |-> one.end]
    ELSE NoMatch

MatchAt(pat, content, s) ==
    LeadingAnchor(s,
        IF s = 0 \/ WordBoundary(content, s) THEN GroupAt(pat, content, s) ELSE NoMatch,
        IF s < Len(content) /\ ~IsAlphanumeric(content[s + 1])
        THEN GroupAt(pat, content, s + 1) ELSE NoMatch)

\* The match at the least of the offsets at which the expression matches.
FirstMatch(pat, content, starts) ==
    IF starts = {} THEN NoMatch
    ELSE MatchAt(pat, content, CHOOSE i \in starts : \A j \in starts : i <= j)

\* RegExp.prototype.exec of a global expression from lastIndex: the match is
\* attempted at the offsets lastIndex, lastIndex + 1, ... up to the length.
exec(pat, content, lastIndex) ==
    FirstMatch(pat, content,
               {i \in lastIndex..Len(content) : MatchAt(pat, content, i).found})

Min(a, b) == IF a < b THEN a ELSE b

Max(a, b) == IF a > b THEN a ELSE b

\* String.prototype.slice(from, to) for from, to >= 0: both are clamped to the
\* length, and the result is empty when to <= from.
slice(s, from, to) == SubSeq(s, Min(from, Len(s)) + 1, Min(to, Len(s)))

\* String.prototype.slice(from): to the end of the string.
sliceFrom(s, from) == slice(s, from, Len(s))

\* String.prototype.indexOf: the offset of the first occurrence, or -1.
indexOf(s, t) ==
    LET hits == {i \in 0..(Len(s) - Len(t)) : slice(s, i, i + Len(t)) = t}
    IN  IF hits = {} THEN -1 ELSE CHOOSE i \in hits : \A j \in hits : i <= j

\* String.prototype.repeat.
RECURSIVE repeat(_, _)
repeat(s, n) == IF n <= 0 THEN << >> ELSE s \o repeat(s, n - 1)

(***************************************************************************)
(* The word library: a Map from the lowercase word to its entry, held as   *)
(* the sequence of its entries in insertion order (the order in which a    *)
(* Map iterates).                                                          *)
(***************************************************************************)
Entry(word, severity, alternatives, variants) ==
    [word |-> word, severity |-> severity, alternatives |-> alternatives,
     variants |-> variants]

\* Map.prototype.has
MapHas(lib, key) == \E i \in 1..Len(lib) : lib[i].word = key

\* Map.prototype.set: an existing key keeps its place, a new key goes last.
MapSet(lib, key, entry) ==
    IF MapHas(lib, key)
    THEN [i \in 1..Len(lib) |-> IF lib[i].word = key THEN entry ELSE lib[i]]
    ELSE Append(lib, entry)

\* Map.prototype.delete
MapDelete(lib, key) ==
    LET keep == {i \in 1..Len(lib) : lib[i].word # key}
        F[i \in 0..Len(lib)] ==
            IF i = 0 THEN << >>
            ELSE IF i \in keep THEN Append(F[i - 1], lib[i]) ELSE F[i - 1]
    IN  F[Len(lib)]

\* Map.prototype.get, Null when the key is absent.
MapGet(lib, key) ==
    IF MapHas(lib, key) THEN lib[CHOOSE i \in 1..Len(lib) : lib[i].word = key] ELSE Null

\* addWord with the key left in the case it was given in.
addWordKeepingCase(lib, word, severity, alternatives, variants) ==
    MapSet(lib, word,
           Entry(word, severity, alternatives, IF variants = Null THEN << >> ELSE variants))

addWord(lib, word, severity, alternatives, variants) ==
    MapSet(lib, toLowerCase(word),
           Entry(toLowerCase(word), severity, alternatives,
                 IF variants = Null THEN << >> ELSE variants))

RECURSIVE addWordsWithoutAlternatives(_, _)
\* addWords with the word and the severity of each entry alone handed on.
addWordsWithoutAlternatives(lib, entries) ==
    IF entries = << >> THEN lib
    ELSE addWordsWithoutAlternatives(
            addWord(lib, Head(entries).word, Head(entries).severity, Null, Null),
            Tail(entries))

RECURSIVE addWords(_, _)
\* entries.forEach(entry => addWord(entry.word, entry.severity, entry.alternatives))
addWords(lib, entries) ==
    IF entries = << >> THEN lib
    ELSE addWords(addWord(lib, Head(entries).word, Head(entries).severity,
                          Head(entries).alternatives, Null),
                  Tail(entries))

\* importLibrary on a library that is emptied first.
importLibraryReplacing(lib, jsonData) == addWords(<< >>, jsonData)

importLibrary(lib, jsonData) == addWords(lib, jsonData)

\* Array.from(this.wordLibrary.values()): the entries in insertion order.
exportLibrary(lib) == [i \in 1..Len(lib) |-> lib[i]]

\* this.wordLibrary.clear()
clearLibrary(lib) == << >>

removeWord(lib, word) == MapDelete(lib, toLowerCase(word))

hasWord(lib, word) == MapHas(lib, toLowerCase(word))

getWordInfo(lib, word) == MapGet(lib, toLowerCase(word))

(***************************************************************************)
(* moderate                                                                *)
(***************************************************************************)
\* shouldBlock with the MODERATE row one severity short: the blocked sets are
\* no longer nested.
shouldBlockNotNested(level, severity) ==
    CASE level = "off" -> FALSE
      [] level = "relaxed" -> severity \in {"severe", "absolutely not"}
      [] level = "moderate" -> severity \in {"moderate", "absolutely not"}
      [] level = "strict" -> severity \in {"mild", "moderate", "severe", "absolutely not"}
      [] OTHER -> FALSE

\* shouldBlock with MODERATE severity blocked at RELAXED as well.
shouldBlockRelaxedWider(level, severity) ==
    CASE level = "off" -> FALSE
      [] level = "relaxed" -> severity \in {"moderate", "severe", "absolutely not"}
      [] level = "moderate" -> severity \in {"moderate", "severe", "absolutely not"}
      [] level = "strict" -> severity \in {"mild", "moderate", "severe", "absolutely not"}
      [] OTHER -> FALSE

shouldBlock(level, severity) ==
    CASE level = "off" -> FALSE
      [] level = "relaxed" -> severity \in {"severe", "absolutely not"}
      [] level = "moderate" -> severity \in {"moderate", "severe", "absolutely not"}
      [] level = "strict" -> severity \in {"mild", "moderate", "severe", "absolutely not"}
      [] OTHER -> FALSE

\* getSeverityRank with the ranks of MODERATE and SEVERE exchanged.
getSeverityRankExchanged(severity) ==
    CASE severity = "mild" -> 1
      [] severity = "moderate" -> 3
      [] severity = "severe" -> 2
      [] severity = "absolutely not" -> 4
      [] OTHER -> 0

getSeverityRank(severity) ==
    CASE severity = "mild" -> 1
      [] severity = "moderate" -> 2
      [] severity = "severe" -> 3
      [] severity = "absolutely not" -> 4
      [] OTHER -> 0

getAllWordsToCheck(entry) == << entry.word >> \o entry.variants

RECURSIVE Candidates(_, _)
\* The (word, entry) pairs of the blocked entries, in library order.
Candidates(lib, level) ==
    IF lib = << >> THEN << >>
    ELSE (IF shouldBlock(level, Head(lib).severity)
          THEN [i \in 1..Len(getAllWordsToCheck(Head(lib))) |->
                   [word |-> getAllWordsToCheck(Head(lib))[i], entry |-> Head(lib)]]
          ELSE << >>) \o Candidates(Tail(lib), level)

RECURSIVE SelectLen(_, _)
SelectLen(cands, n) ==
    IF cands = << >> THEN << >>
    ELSE (IF Len(Head(cands).word) = n THEN << Head(cands) >> ELSE << >>)
         \o SelectLen(Tail(cands), n)

RECURSIVE LongestFirst(_, _)
\* Array.prototype.sort((a, b) => b.word.length - a.word.length): stable.
LongestFirst(cands, n) ==
    IF n < 0 THEN << >> ELSE SelectLen(cands, n) \o LongestFirst(cands, n - 1)

MaxWordLen(cands) ==
    IF cands = << >> THEN 0
    ELSE CHOOSE n \in {Len(cands[i].word) : i \in 1..Len(cands)} :
            \A i \in 1..Len(cands) : Len(cands[i].word) <= n

\* The candidates scanned in library order, without the sort.
wordsToCheckUnsorted(lib, level) == Candidates(lib, level)

\* wordsToCheck.sort((a, b) => b.word.length - a.word.length)
wordsToCheck(lib, level) ==
    LongestFirst(Candidates(lib, level), MaxWordLen(Candidates(lib, level)))

\* isPositionCensored with the first of its three tests alone: a range that
\* begins before an accepted range and runs into it is not seen.
isPositionCensoredStartOnly(censoredRanges, start, end) ==
    \E i \in 1..Len(censoredRanges) :
        start >= censoredRanges[i][1] /\ start < censoredRanges[i][2]

isPositionCensored(censoredRanges, start, end) ==
    \E i \in 1..Len(censoredRanges) :
        LET cStart == censoredRanges[i][1]
            cEnd == censoredRanges[i][2]
        IN  \/ (start >= cStart /\ start < cEnd)
            \/ (end > cStart /\ end <= cEnd)
            \/ (start <= cStart /\ end >= cEnd)

\* The start of the match taken for the start of the word: the character the
\* leading [^a-zA-Z0-9] consumed is counted in.
matchStartAtIndex(text, m) == m.index

\* match.index + match[0].indexOf(matchedWord)
matchStart(text, m) ==
    m.index + indexOf(slice(text, m.index, m.end), slice(text, m.groupStart, m.groupEnd))

EmptyScan ==
    [foundWords |-> << >>, matches |-> << >>, censoredRanges |-> << >>,
     maxSeverity |-> Null, hung |-> FALSE]

\* The match is skipped when its range is censored, and recorded otherwise.
AcceptMatch(acc, entry, matchedWord, start) ==
    IF isPositionCensored(acc.censoredRanges, start, start + Len(matchedWord)) THEN acc
    ELSE [acc EXCEPT
            !.foundWords = Append(@, matchedWord),
            !.matches = Append(@, [word |-> matchedWord, severity |-> entry.severity,
                                   position |-> start]),
            !.maxSeverity =
                IF @ = Null \/ getSeverityRank(entry.severity) > getSeverityRank(@)
                THEN entry.severity ELSE @,
            !.censoredRanges = Append(@, << start, start + Len(matchedWord) >>)]

RECURSIVE ScanWord(_, _, _, _, _)
RECURSIVE ScanMatch(_, _, _, _, _)
RECURSIVE ScanNext(_, _, _, _, _)
\* while ((match = pattern.exec(content)) !== null) { ... } for one candidate.
\* A match of the empty string leaves lastIndex where it was: exec returns it
\* again, the range is censored by then, and the loop never ends.
ScanWord(acc, pat, entry, content, lastIndex) ==
    ScanMatch(acc, pat, entry, content, exec(pat, content, lastIndex))

\* The body of the loop on the match m.
ScanMatch(acc, pat, entry, content, m) ==
    IF ~m.found THEN acc
    ELSE ScanNext(pat, entry, content, m,
            AcceptMatch(acc, entry, slice(content, m.groupStart, m.groupEnd),
                        matchStart(content, m)))

\* The loop goes on from the lastIndex the match left.
ScanNext(pat, entry, content, m, next) ==
    IF m.end = m.index THEN [next EXCEPT !.hung = TRUE]
    ELSE ScanWord(next, pat, entry, content, m.end)

RECURSIVE Scan(_, _, _)
\* for (const { word, entry } of wordsToCheck) { ... }
Scan(acc, cands, content) ==
    IF cands = << >> \/ acc.hung THEN acc
    ELSE Scan(ScanWord(acc, createWordPattern(Head(cands).word), Head(cands).entry, content, 0),
              Tail(cands), content)

RECURSIVE InsertByPosition(_, _, _)
InsertByPosition(sorted, m, descending) ==
    IF sorted = << >> THEN << m >>
    ELSE IF (IF descending THEN m.position > Head(sorted).position
                           ELSE m.position < Head(sorted).position)
         THEN << m >> \o sorted
         ELSE << Head(sorted) >> \o InsertByPosition(Tail(sorted), m, descending)

RECURSIVE SortByPosition(_, _)
\* Array.prototype.sort by position (stable), descending or ascending.
SortByPosition(ms, descending) ==
    IF ms = << >> THEN << >>
    ELSE InsertByPosition(SortByPosition(SubSeq(ms, 1, Len(ms) - 1), descending),
                          ms[Len(ms)], descending)

RECURSIVE CensorOnce(_, _, _)
\* The censoring loop with the censor character not repeated to the length of
\* the match.
CensorOnce(sanitized, ms, char) ==
    IF ms = << >> THEN sanitized
    ELSE CensorOnce(slice(sanitized, 0, Head(ms).position)
                        \o char
                        \o sliceFrom(sanitized, Head(ms).position + Len(Head(ms).word)),
                    Tail(ms), char)

RECURSIVE Censor(_, _, _)
\* for (const match of sortedMatches) { sanitized = ... }
Censor(sanitized, ms, char) ==
    IF ms = << >> THEN sanitized
    ELSE Censor(slice(sanitized, 0, Head(ms).position)
                    \o repeat(char, Len(Head(ms).word))
                    \o sliceFrom(sanitized, Head(ms).position + Len(Head(ms).word)),
                Tail(ms), char)

RECURSIVE UniqueKeepingLast(_)
\* The duplicates removed with the last occurrence of each word kept.
UniqueKeepingLast(words) ==
    IF words = << >> THEN << >>
    ELSE LET rest == UniqueKeepingLast(Tail(words))
         IN  IF Head(words) \in Range(Tail(words)) THEN rest ELSE << Head(words) >> \o rest

RECURSIVE Unique(_)
\* Array.from(new Set(words)): the first occurrence of each word is kept.
Unique(words) ==
    IF words = << >> THEN << >>
    ELSE LET init == Unique(SubSeq(words, 1, Len(words) - 1))
             last == words[Len(words)]
         IN  IF last \in Range(init) THEN init ELSE Append(init, last)

\* The call that never returns.
Hung == [returned |-> FALSE]

\* The censoring and the return of moderate on what the scan collected.
ModerationResult(acc, char, text) ==
    IF acc.hung THEN Hung
    ELSE [returned |-> TRUE,
          isClean |-> Len(acc.foundWords) = 0,
          foundWords |-> Unique(acc.foundWords),
          severity |-> acc.maxSeverity,
          sanitized |-> Censor(text, SortByPosition(acc.matches, TRUE), char),
          matches |-> SortByPosition(acc.matches, FALSE)]

moderate(lib, level, char, text) ==
    IF Len(lib) = 0 \/ level = "off"
    THEN [returned |-> TRUE, isClean |-> TRUE, foundWords |-> << >>, severity |-> Null,
          sanitized |-> text, matches |-> << >>]
    ELSE ModerationResult(Scan(EmptyScan, wordsToCheck(lib, level), text), char, text)

\* sanitize with its output put into lowercase.
sanitizeLowered(lib, level, char, text) ==
    toLowerCase(moderate(lib, level, char, text).sanitized)

\* return this.moderate(content).sanitized
sanitize(lib, level, char, text) == moderate(lib, level, char, text).sanitized

\* return this.moderate(content).isClean
isClean(lib, level, char, text) == moderate(lib, level, char, text).isClean

\* allWords.some(w => w.toLowerCase() === match.word.toLowerCase())
EntryHasWord(entry, word) ==
    \E k \in 1..Len(getAllWordsToCheck(entry)) :
        toLowerCase(getAllWordsToCheck(entry)[k]) = toLowerCase(word)

\* The index of the first entry of the library with the word among its word
\* and variants, 0 when matchedEntry stays undefined.
matchedEntry(lib, word) ==
    IF \E i \in 1..Len(lib) : EntryHasWord(lib[i], word)
    THEN CHOOSE i \in 1..Len(lib) :
            /\ EntryHasWord(lib[i], word)
            /\ \A h \in 1..(i - 1) : ~EntryHasWord(lib[h], word)
    ELSE 0

\* entry.alternatives && entry.alternatives.length > 0
HasAlternatives(entry) == entry.alternatives # Null /\ Len(entry.alternatives) > 0

\* The replacement of one match in moderateSentence.
Replacement(lib, char, word) ==
    IF matchedEntry(lib, word) > 0 /\ HasAlternatives(lib[matchedEntry(lib, word)])
    THEN lib[matchedEntry(lib, word)].alternatives[1]
    ELSE repeat(char, Len(word))

RECURSIVE Substitute(_, _, _, _)
\* for (const match of sortedMatches) { ... sanitized = ... } of moderateSentence
Substitute(sanitized, ms, lib, char) ==
    IF ms = << >> THEN sanitized
    ELSE Substitute(slice(sanitized, 0, Head(ms).position)
                        \o Replacement(lib, char, Head(ms).word)
                        \o sliceFrom(sanitized, Head(ms).position + Len(Head(ms).word)),
                    Tail(ms), lib, char)

\* moderateSentence on the result of its call of moderate.
SentenceResult(r, lib, char, sentence, preserveStructure) ==
    IF ~r.returned THEN Hung
    ELSE IF preserveStructure /\ ~r.isClean
    THEN [r EXCEPT !.sanitized =
              Substitute(sentence, SortByPosition(r.matches, TRUE), lib, char)]
    ELSE r

\* const severityPoints = { mild: 10, moderate: 25, severe: 50, 'absolutely not': 100 }
severityPoints(severity) ==
    CASE severity = "mild" -> 10
      [] severity = "moderate" -> 25
      [] severity = "severe" -> 50
      [] severity = "absolutely not" -> 100
      [] OTHER -> 0

RECURSIVE totalPoints(_)
\* for (const match of result.matches) { totalPoints += severityPoints[match.severity] || 0 }
totalPoints(ms) ==
    IF ms = << >> THEN 0 ELSE severityPoints(Head(ms).severity) + totalPoints(Tail(ms))

\* content.split(/\s+/).length: the pieces between the maximal runs of
\* whitespace, the empty pieces before a leading and after a trailing run
\* included; one piece for the empty string.
SplitLength(text) ==
    1 + Cardinality({i \in 1..Len(text) :
                        IsSpace(text[i]) /\ (i = 1 \/ ~IsSpace(text[i - 1]))})

\* content.split(/\s+/).length || 1
wordCount(text) == IF SplitLength(text) = 0 THEN 1 ELSE SplitLength(text)

\* Math.round(Math.min(100, (totalPoints / wordCount) * 10)), Math.round
\* rounding a half up.
RoundedScore(points, words) ==
    IF 10 * points >= 100 * words THEN 100
    ELSE (2 * 10 * points + words) \div (2 * words)

\* getProfanityScore on the result of its call of moderate.
ScoreOfResult(r, text) ==
    IF ~r.returned THEN Hung
    ELSE IF r.isClean THEN 0
    ELSE RoundedScore(totalPoints(r.matches), wordCount(text))

getProfanityScore(lib, level, char, text) ==
    ScoreOfResult(moderate(lib, level, char, text), text)

\* return score <= threshold
isWithinThreshold(lib, level, char, text, threshold) ==
    getProfanityScore(lib, level, char, text) <= threshold

\* options.<key> !== undefined: an option that is not supplied is a field the
\* record does not have.
Supplied(options, key) == key \in DOMAIN options

\* The first test of validate with a score at the maximum taken to exceed it.
ScoreExceededAtMaximum(score, options) ==
    Supplied(options, "maxProfanityScore") /\ score >= options.maxProfanityScore

\* options.maxProfanityScore !== undefined && score > options.maxProfanityScore
ScoreExceeded(score, options) ==
    Supplied(options, "maxProfanityScore") /\ score > options.maxProfanityScore

\* options.maxSeverity !== undefined && result.severity && severityRank > maxRank
SeverityExceeded(r, options) ==
    /\ Supplied(options, "maxSeverity")
    /\ r.severity # Null
    /\ getSeverityRank(r.severity) > getSeverityRank(options.maxSeverity)

\* options.maxProfaneWords !== undefined && result.foundWords.length > options.maxProfaneWords
CountExceeded(r, options) ==
    Supplied(options, "maxProfaneWords") /\ Len(r.foundWords) > options.maxProfaneWords

\* The reason pushed for a ceiling: the ceiling, the value and the maximum its
\* message is made of.
Reason(ceiling, value, maximum) ==
    << [ceiling |-> ceiling, value |-> value, maximum |-> maximum] >>

\* validate on the results of its calls of moderate and getProfanityScore.
ValidationOf(r, score, options) ==
    IF ~r.returned THEN Hung
    ELSE [isValid |-> ~(\/ ScoreExceeded(score, options)
                        \/ SeverityExceeded(r, options)
                        \/ CountExceeded(r, options)),
          reasons |->
              (IF ScoreExceeded(score, options)
               THEN Reason("maxProfanityScore", score, options.maxProfanityScore)
               ELSE << >>)
              \o (IF SeverityExceeded(r, options)
                  THEN Reason("maxSeverity", r.severity, options.maxSeverity)
                  ELSE << >>)
              \o (IF CountExceeded(r, options)
                  THEN Reason("maxProfaneWords", Len(r.foundWords), options.maxProfaneWords)
                  ELSE << >>),
          score |-> score,
          profaneWordCount |-> Len(r.foundWords)]

validate(lib, level, char, text, options) ==
    ValidationOf(moderate(lib, level, char, text),
                 getProfanityScore(lib, level, char, text), options)

moderateSentence(lib, level, char, sentence, preserveStructure) ==
    SentenceResult(moderate(lib, level, char, sentence), lib, char, sentence, preserveStructure)

RECURSIVE Wrap(_, _, _, _)
\* for (const match of sortedMatches) { highlighted = ... } of highlight
Wrap(highlighted, ms, openTag, closeTag) ==
    IF ms = << >> THEN highlighted
    ELSE Wrap(slice(highlighted, 0, Head(ms).position)
                  \o openTag \o Head(ms).word \o closeTag
                  \o sliceFrom(highlighted, Head(ms).position + Len(Head(ms).word)),
              Tail(ms), openTag, closeTag)

\* highlight on the result of its call of moderate.
HighlightOfResult(r, text, openTag, closeTag) ==
    IF ~r.returned THEN Hung
    ELSE IF r.isClean THEN text
    ELSE Wrap(text, SortByPosition(r.matches, TRUE), openTag, closeTag)

highlight(lib, level, char, text, openTag, closeTag) ==
    HighlightOfResult(moderate(lib, level, char, text), text, openTag, closeTag)

\* const counts = { mild: 0, moderate: 0, severe: 0, wtf: 0, total: 0 }
NoCounts == [key \in {"mild", "moderate", "severe", "wtf", "total"} |-> 0]

\* counts[key]++ : a number is incremented, a property that is missing or
\* not a number becomes NaN.
Increment(counts, key) ==
    [k \in DOMAIN counts \cup {key} |->
        IF k # key THEN counts[k]
        ELSE IF k \in DOMAIN counts /\ counts[k] \in Nat THEN counts[k] + 1
        ELSE "NaN"]

RECURSIVE Count(_, _)
\* for (const match of result.matches) { counts[match.severity]++; counts.total++ }
Count(counts, ms) ==
    IF ms = << >> THEN counts
    ELSE Count(Increment(Increment(counts, Head(ms).severity), "total"), Tail(ms))

\* countBySeverity on the result of its call of moderate.
CountsOfResult(r) == IF ~r.returned THEN Hung ELSE Count(NoCounts, r.matches)

countBySeverity(lib, level, char, text) == CountsOfResult(moderate(lib, level, char, text))

RECURSIVE SplitFrom(_, _, _)
\* The pieces of content.split(/\s+/) from offset i on, piece being the
\* characters of the piece that is open at i.
SplitFrom(text, i, piece) ==
    IF i > Len(text) THEN << piece >>
    ELSE IF ~IsSpace(text[i]) THEN SplitFrom(text, i + 1, Append(piece, text[i]))
    ELSE IF i > 1 /\ IsSpace(text[i - 1]) THEN SplitFrom(text, i + 1, piece)
    ELSE << piece >> \o SplitFrom(text, i + 1, << >>)

\* content.split(/\s+/)
Split(text) == SplitFrom(text, 1, << >>)

RECURSIVE Join(_, _)
\* Array.prototype.join(separator)
Join(pieces, separator) ==
    IF pieces = << >> THEN << >>
    ELSE IF Len(pieces) = 1 THEN pieces[1]
    ELSE pieces[1] \o separator \o Join(Tail(pieces), separator)

\* content.split(/\s+/).filter(w => w.length > 0).length
totalWords(text) == Cardinality({i \in 1..Len(Split(text)) : Len(Split(text)[i]) > 0})

\* Math.round(profanityPercentage * 100) / 100 in hundredths of a percent,
\* with profanityPercentage = totalWords > 0 ? (found / totalWords) * 100 : 0.
profanityPercentage(found, words) ==
    IF words > 0 THEN (2 * 100 * 100 * found + words) \div (2 * words) ELSE 0

\* The words around a match: words.slice(start, end).join(' ') with
\* matchWordIndex = content.substring(0, position).split(/\s+/).length - 1.
Context(text, matchWordIndex) ==
    Join(SubSeq(Split(text),
                Max(0, matchWordIndex - 5) + 1,
                Min(Len(Split(text)), matchWordIndex + 6)),
         << " " >>)

\* result.matches.map(match => ({ word, severity, position, context }))
Details(text, ms) ==
    [i \in 1..Len(ms) |->
        [word |-> ms[i].word, severity |-> ms[i].severity, position |-> ms[i].position,
         context |-> Context(text, Len(Split(slice(text, 0, ms[i].position))) - 1)]]

\* getDetailedReport on the results of its calls of moderate, countBySeverity
\* and getProfanityScore.
ReportOf(r, counts, score, text) ==
    IF ~r.returned THEN Hung
    ELSE [isClean |-> r.isClean,
          totalWords |-> totalWords(text),
          profaneWords |-> Len(r.foundWords),
          profanityPercentage |-> profanityPercentage(Len(r.foundWords), totalWords(text)),
          score |-> score,
          highestSeverity |-> r.severity,
          severityCounts |-> [key \in {"mild", "moderate", "severe", "wtf"} |-> counts[key]],
          flaggedWords |-> r.foundWords,
          details |-> Details(text, r.matches)]

getDetailedReport(lib, level, char, text) ==
    ReportOf(moderate(lib, level, char, text), countBySeverity(lib, level, char, text),
             getProfanityScore(lib, level, char, text), text)

\* contents.map(content => this.moderate(content))
moderateBatch(lib, level, char, contents) ==
    [i \in 1..Len(contents) |-> moderate(lib, level, char, contents[i])]

RECURSIVE Filter(_, _, _, _, _)
\* contents.filter(content => this.isClean(content) === clean)
Filter(lib, level, char, contents, clean) ==
    IF contents = << >> THEN << >>
    ELSE (IF isClean(lib, level, char, Head(contents)) = clean
          THEN << Head(contents) >> ELSE << >>)
         \o Filter(lib, level, char, Tail(contents), clean)

filterClean(lib, level, char, contents) == Filter(lib, level, char, contents, TRUE)

filterProfane(lib, level, char, contents) == Filter(lib, level, char, contents, FALSE)

(***************************************************************************)
(* The instance: its fields, the text handed to moderate and the result    *)
(* of the last call.                                                       *)
(***************************************************************************)
VARIABLES
    wordLibrary,        \* this.wordLibrary
    moderationLevel,    \* this.moderationLevel
    censorChar,         \* this.censorChar
    content,            \* the text the caller moderates
    pc,                 \* "idle", "returned" (result holds the last result) or "hung"
    result,             \* the ModerationResult of the last call on this configuration
    fileDownload,       \* the component that renders useFileDownload()
    shortcutsHook,      \* the document and the component that renders useShortcuts()
    liveSanitizer       \* the component that renders useLiveSanitizer()

\* The components that render the hooks of the other packages.
hooks == << fileDownload, shortcutsHook, liveSanitizer >>

vars == << wordLibrary, moderationLevel, censorChar, content, pc, result, hooks >>

\* A hook that no component renders.
NotRendered == [rendered |-> FALSE]

\* initializeDefaultLibrary
DefaultLibrary ==
    << Entry(<< "d", "a", "m", "n" >>, "mild",
             << << "d", "a", "r", "n" >>, << "d", "a", "n", "g" >> >>, << >>),
       Entry(<< "h", "e", "l", "l" >>, "mild", << << "h", "e", "c", "k" >> >>, << >>),
       Entry(<< "c", "r", "a", "p" >>, "mild", << << "c", "r", "u", "d" >> >>, << >>),
       Entry(<< "p", "i", "s", "s" >>, "mild",
             << << "t", "i", "c", "k", "e", "d" >> >>, << >>),
       Entry(<< "s", "h", "i", "t" >>, "moderate",
             << << "s", "h", "o", "o", "t" >>, << "c", "r", "a", "p" >> >>, << >>),
       Entry(<< "a", "s", "s" >>, "moderate", << << "b", "u", "t", "t" >> >>, << >>),
       Entry(<< "b", "i", "t", "c", "h" >>, "moderate", << << "j", "e", "r", "k" >> >>, << >>),
       Entry(<< "b", "a", "s", "t", "a", "r", "d" >>, "moderate",
             << << "j", "e", "r", "k" >> >>, << >>),
       Entry(<< "f", "u", "c", "k" >>, "severe",
             << << "f", "u", "d", "g", "e" >>, << "h", "e", "c", "k" >> >>, << >>),
       Entry(<< "k", "y", "s" >>, "absolutely not", Null, << >>) >>

(***************************************************************************)
(* The inputs the operations are called with.                              *)
(***************************************************************************)
Alphabet == {"a", "s", "A", "@", " ", "_"}

RECURSIVE StringsUpTo(_)
StringsUpTo(n) ==
    IF n = 0 THEN {<< >>}
    ELSE StringsUpTo(n - 1)
         \cup {Append(t, c) : t \in {u \in StringsUpTo(n - 1) : Len(u) = n - 1}, c \in Alphabet}

Texts == StringsUpTo(MaxLen)

\* The arguments of addWord: word, severity, alternatives, variants.
WordInputs ==
    { [word |-> << "a", "s" >>, severity |-> "mild", alternatives |-> Null, variants |-> Null],
      [word |-> << "A", "s" >>, severity |-> "absolutely not",
       alternatives |-> << << "o", "k" >> >>, variants |-> Null],
      [word |-> << "a" >>, severity |-> "moderate", alternatives |-> Null, variants |-> Null],
      [word |-> << "s" >>, severity |-> "severe", alternatives |-> Null, variants |-> Null] }

\* The arguments of removeWord, hasWord and getWordInfo.
WordArgs == {in.word : in \in WordInputs} \cup {<< "A", "S" >>, << "S" >>}

\* Arguments of addWord with a list of variants.
VariantInputs ==
    { [word |-> << "a" >>, severity |-> "moderate", alternatives |-> Null,
       variants |-> << << "s", "a" >> >>] }

\* The arrays handed to addWords and importLibrary: one entry of each input,
\* an entry with variants, and two entries at once.
EntryLists ==
    {<< >>}
    \cup {<< Entry(in.word, in.severity, in.alternatives, << >>) >> : in \in WordInputs}
    \cup {<< Entry(in.word, in.severity, in.alternatives, in.variants) >> : in \in VariantInputs}
    \cup {<< Entry(<< "s" >>, "severe", Null, << >>),
             Entry(<< "A", "s" >>, "absolutely not", << << "o", "k" >> >>, << >>) >>}

\* The censor characters an instance is constructed with; the first is the default.
DefaultCensorChar == << "*" >>

CensorChars == {DefaultCensorChar, << "#" >>, << "#", "#" >>}

NoResult == [returned |-> FALSE]

(***************************************************************************)
(* new ProfanityGuard(moderationLevel, censorChar)                         *)
(***************************************************************************)
Constructed(levels, censors) ==
    /\ wordLibrary = DefaultLibrary
    /\ moderationLevel \in levels
    /\ censorChar \in censors
    /\ content = << >>
    /\ pc = "idle"
    /\ result = NoResult
    /\ fileDownload = NotRendered
    /\ shortcutsHook = NotRendered
    /\ liveSanitizer = NotRendered

\* new ProfanityGuard(level): the censor character is the default.
Init == Constructed(ModerationLevel, {DefaultCensorChar})

\* new ProfanityGuard(ModerationLevel.STRICT, censorChar)
InitCensor == Constructed({"strict"}, CensorChars \ {DefaultCensorChar})

\* The caller is single-threaded: it starts an operation when the one before
\* has returned.
Mutation ==
    /\ pc = "idle"
    /\ UNCHANGED << censorChar, content, pc, result, hooks >>

AddWord ==
    /\ Mutation
    /\ \E in \in WordInputs :
          wordLibrary' = addWord(wordLibrary, in.word, in.severity, in.alternatives, in.variants)
    /\ UNCHANGED moderationLevel

AddWords ==
    /\ Mutation
    /\ \E entries \in EntryLists : wordLibrary' = addWords(wordLibrary, entries)
    /\ UNCHANGED moderationLevel

ImportLibrary ==
    /\ Mutation
    /\ \E jsonData \in EntryLists : wordLibrary' = importLibrary(wordLibrary, jsonData)
    /\ UNCHANGED moderationLevel

RemoveWord ==
    /\ Mutation
    /\ \E word \in WordArgs : wordLibrary' = removeWord(wordLibrary, word)
    /\ UNCHANGED moderationLevel

ClearLibrary ==
    /\ Mutation
    /\ wordLibrary' = clearLibrary(wordLibrary)
    /\ UNCHANGED moderationLevel

SetModerationLevel ==
    /\ Mutation
    /\ \E level \in ModerationLevel : moderationLevel' = level
    /\ UNCHANGED wordLibrary

\* moderate(content) with the library emptied by the call.
ModerateClearing ==
    /\ pc = "idle"
    /\ \E text \in Texts :
          /\ content' = text
          /\ result' = moderate(wordLibrary, moderationLevel, censorChar, text)
          /\ pc' = IF result'.returned THEN "returned" ELSE "hung"
    /\ wordLibrary' = clearLibrary(wordLibrary)
    /\ UNCHANGED << moderationLevel, censorChar, hooks >>

\* moderate(text): the call runs to its return statement, or never returns.
Moderate ==
    /\ pc = "idle"
    /\ \E text \in Texts :
          /\ content' = text
          /\ result' = moderate(wordLibrary, moderationLevel, censorChar, text)
          /\ pc' = IF result'.returned THEN "returned" ELSE "hung"
    /\ UNCHANGED << wordLibrary, moderationLevel, censorChar, hooks >>

\* The caller has used the result and goes on.
Return ==
    /\ pc = "returned"
    /\ pc' = "idle"
    /\ content' = << >>
    /\ result' = NoResult
    /\ UNCHANGED << wordLibrary, moderationLevel, censorChar, hooks >>

Next ==
    \/ AddWord
    \/ AddWords
    \/ ImportLibrary
    \/ RemoveWord
    \/ ClearLibrary
    \/ SetModerationLevel
    \/ Moderate
    \/ Return

Spec == Init /\ [][Next]_vars

SpecCensor == InitCensor /\ [][Next]_vars

\* addWord(word, severity, alternatives, variants) with a list of variants.
AddWordWithVariants ==
    /\ Mutation
    /\ \E in \in VariantInputs :
          wordLibrary' = addWord(wordLibrary, in.word, in.severity, in.alternatives, in.variants)
    /\ UNCHANGED moderationLevel

\* The operations that write the fields of the instance.
NextLibrary ==
    \/ AddWord
    \/ AddWordWithVariants
    \/ AddWords
    \/ ImportLibrary
    \/ RemoveWord
    \/ ClearLibrary
    \/ SetModerationLevel

SpecLibrary == Init /\ [][NextLibrary]_vars

\* Arguments of addWord at the edge of its domain: the empty string and
\* words of punctuation alone.
EdgeInputs ==
    { [word |-> << >>, severity |-> "mild", alternatives |-> Null, variants |-> Null],
      [word |-> << "@" >>, severity |-> "severe", alternatives |-> Null, variants |-> Null],
      [word |-> << "_", "@" >>, severity |-> "moderate", alternatives |-> Null,
       variants |-> Null] }

\* addWord(word, severity) with such a word.
AddEdgeWord ==
    /\ Mutation
    /\ \E in \in EdgeInputs :
          wordLibrary' = addWord(wordLibrary, in.word, in.severity, in.alternatives, in.variants)
    /\ UNCHANGED moderationLevel

NextEdge ==
    \/ AddEdgeWord
    \/ ClearLibrary
    \/ SetModerationLevel
    \/ Moderate
    \/ Return

SpecEdge == Init /\ [][NextEdge]_vars

\* The options handed to validate: none, each ceiling alone, and all three.
ValidateOptions ==
    { << >>,
      [maxProfanityScore |-> 0], [maxProfanityScore |-> 100],
      [maxSeverity |-> "mild"], [maxSeverity |-> "absolutely not"],
      [maxProfaneWords |-> 0], [maxProfaneWords |-> 1],
      [maxProfanityScore |-> 50, maxSeverity |-> "moderate", maxProfaneWords |-> 1],
      [maxProfanityScore |-> 100, maxSeverity |-> "severe"] }

\* The opening and closing markers handed to highlight: the default ones
\* and a pair of brackets.
HighlightTags ==
    { << << "<", "m", "a", "r", "k", ">" >>, << "<", "/", "m", "a", "r", "k", ">" >> >>,
      << << "[" >>, << "]" >> >> }

\* The arrays of texts handed to moderateBatch, filterClean and filterProfane.
Batches ==
    { << >>,
      << << "a" >>, << "a" >> >>,
      << << "@", "s", "s" >>, << " ", "a", " " >>, << "s", "_" >> >> }

\* The call of an analysis operation: it keeps its argument and what it
\* returns, and writes no field of the instance.
Analyse(operation, argument, arguments, returned, value) ==
    /\ pc = "idle"
    /\ content' = argument
    /\ result' = IF returned
                 THEN [returned |-> TRUE, operation |-> operation,
                       arguments |-> arguments, value |-> value]
                 ELSE Hung
    /\ pc' = IF result'.returned THEN "returned" ELSE "hung"
    /\ UNCHANGED <<wordLibrary, moderationLevel, censorChar, hooks>>

\* Whether the calls of moderate on the texts of an array all return.
AllReturn(contents) ==
    \A i \in 1..Len(contents) :
        moderate(wordLibrary, moderationLevel, censorChar, contents[i]).returned

IsClean ==
    \E text \in Texts :
        Analyse("isClean", text, << >>, AllReturn(<< text >>),
                isClean(wordLibrary, moderationLevel, censorChar, text))

Sanitize ==
    \E text \in Texts :
        Analyse("sanitize", text, << >>, AllReturn(<< text >>),
                sanitize(wordLibrary, moderationLevel, censorChar, text))

ModerateSentence ==
    \E text \in Texts, preserveStructure \in BOOLEAN :
        Analyse("moderateSentence", text, << preserveStructure >>, AllReturn(<< text >>),
                moderateSentence(wordLibrary, moderationLevel, censorChar, text,
                                 preserveStructure))

Highlight ==
    \E text \in Texts, tags \in HighlightTags :
        Analyse("highlight", text, tags, AllReturn(<< text >>),
                highlight(wordLibrary, moderationLevel, censorChar, text, tags[1], tags[2]))

CountBySeverity ==
    \E text \in Texts :
        Analyse("countBySeverity", text, << >>, AllReturn(<< text >>),
                countBySeverity(wordLibrary, moderationLevel, censorChar, text))

GetProfanityScore ==
    \E text \in Texts :
        Analyse("getProfanityScore", text, << >>, AllReturn(<< text >>),
                getProfanityScore(wordLibrary, moderationLevel, censorChar, text))

Validate ==
    \E text \in Texts, options \in ValidateOptions :
        Analyse("validate", text, << options >>, AllReturn(<< text >>),
                validate(wordLibrary, moderationLevel, censorChar, text, options))

GetDetailedReport ==
    \E text \in Texts :
        Analyse("getDetailedReport", text, << >>, AllReturn(<< text >>),
                getDetailedReport(wordLibrary, moderationLevel, censorChar, text))

ModerateBatch ==
    \E contents \in Batches :
        Analyse("moderateBatch", contents, << >>, AllReturn(contents),
                moderateBatch(wordLibrary, moderationLevel, censorChar, contents))

FilterClean ==
    \E contents \in Batches :
        Analyse("filterClean", contents, << >>, AllReturn(contents),
                filterClean(wordLibrary, moderationLevel, censorChar, contents))

FilterProfane ==
    \E contents \in Batches :
        Analyse("filterProfane", contents, << >>, AllReturn(contents),
                filterProfane(wordLibrary, moderationLevel, censorChar, contents))

NextAnalysis ==
    \/ AddWordWithVariants
    \/ ClearLibrary
    \/ SetModerationLevel
    \/ Moderate
    \/ IsClean
    \/ Sanitize
    \/ ModerateSentence
    \/ Highlight
    \/ CountBySeverity
    \/ GetProfanityScore
    \/ Validate
    \/ GetDetailedReport
    \/ ModerateBatch
    \/ FilterClean
    \/ FilterProfane
    \/ Return

SpecAnalysis == Init /\ [][NextAnalysis]_vars

\* The number of clean words that follow the first word of a long text.
PadCount == 200

\* A word followed by n copies of a piece.
Padded(word, piece, n) ==
    [i \in 1..(Len(word) + n * Len(piece)) |->
        IF i <= Len(word) THEN word[i]
        ELSE piece[((i - Len(word) - 1) % Len(piece)) + 1]]

\* Texts of PadCount and of PadCount + 1 words of which the first alone may
\* be in the library.
LongTexts ==
    {Padded(word, << " ", "o", "k" >>, n) :
        word \in {<< "d", "a", "m", "n" >>, << "s", "h", "i", "t" >>, << "o", "k" >>},
        n \in {PadCount - 1, PadCount}}

InitLong == Constructed(ModerationLevel, CensorChars)

\* moderate(content) on a long text.
ModerateLong ==
    /\ pc = "idle"
    /\ \E text \in LongTexts :
          /\ content' = text
          /\ result' = moderate(wordLibrary, moderationLevel, censorChar, text)
    /\ pc' = IF result'.returned THEN "returned" ELSE "hung"
    /\ UNCHANGED <<wordLibrary, moderationLevel, censorChar, hooks>>

NextLong ==
    \/ ClearLibrary
    \/ SetModerationLevel
    \/ ModerateLong
    \/ Return

SpecLong == InitLong /\ [][NextLong]_vars

(***************************************************************************)
(* The hooks of the other packages. A hook is rendered by one component;   *)
(* the ProfanityGuard instance of the page is the default one.             *)
(***************************************************************************)
instance == << wordLibrary, moderationLevel, censorChar, content, pc, result >>

\* new ProfanityGuard(level, censorChar) of a page whose caller is at rest.
Page(levels) ==
    /\ wordLibrary = DefaultLibrary
    /\ moderationLevel \in levels
    /\ censorChar = DefaultCensorChar
    /\ content = << >>
    /\ pc = "idle"
    /\ result = NoResult

(***************************************************************************)
(* useFileDownload: the status of the component, the calls of              *)
(* startDownload, the calls whose downloadHandler is awaited, and what the *)
(* last call that settled met and reported.                                *)
(***************************************************************************)
MaxCalls == 5

DownloadStatus == {"idle", "downloading", "success", "error"}

\* What the awaited steps of downloadHandler meet: the response is OK and
\* its blob is read; the response is not OK; fetch or response.blob() rejects.
Outcomes == {"ok", "notOk", "rejected"}

\* The contentUrl of a call: empty, or the address of a file.
Urls == {<< >>, << "u" >>}

\* downloadHandler: how the promise settles and whether link.click() ran.
downloadHandler(outcome) ==
    [settles |-> IF outcome = "rejected" THEN "rejected" ELSE "resolved",
     clicked |-> outcome = "ok"]

\* The status that startDownload reads: useCallback(..., []) keeps the
\* function of the first render, which closed over the status of that render.
statusInStartDownload(hook) == hook.firstStatus

\* try { await downloadHandler(...); setStatus('success') } catch { setStatus('error') }
statusAfterDownload(outcome) ==
    IF downloadHandler(outcome).settles = "resolved" THEN "success" ELSE "error"

\* The first render: useState('idle').
useFileDownload ==
    [rendered |-> TRUE, status |-> "idle", firstStatus |-> "idle",
     calls |-> 0, inFlight |-> 0, met |-> "none", reported |-> "none"]

InitDownload ==
    /\ Page({"moderate"})
    /\ fileDownload = useFileDownload
    /\ shortcutsHook = NotRendered
    /\ liveSanitizer = NotRendered

\* startDownload(contentUrl): returns at once for an empty url or when the
\* status it reads is 'downloading'; otherwise sets the status and awaits
\* downloadHandler, which starts the fetch.
startDownload ==
    /\ fileDownload.rendered
    /\ fileDownload.calls < MaxCalls
    /\ \E contentUrl \in Urls :
          fileDownload' =
              IF contentUrl = << >> \/ statusInStartDownload(fileDownload) = "downloading"
              THEN [fileDownload EXCEPT !.calls = @ + 1]
              ELSE [fileDownload EXCEPT !.calls = @ + 1,
                                        !.status = "downloading",
                                        !.inFlight = @ + 1]
    /\ UNCHANGED << instance, shortcutsHook, liveSanitizer >>

\* The awaited downloadHandler of a call settles and the call sets the status.
Settle ==
    /\ fileDownload.rendered
    /\ fileDownload.inFlight > 0
    /\ \E outcome \in Outcomes :
          fileDownload' = [fileDownload EXCEPT !.inFlight = @ - 1,
                                               !.met = outcome,
                                               !.status = statusAfterDownload(outcome),
                                               !.reported = statusAfterDownload(outcome)]
    /\ UNCHANGED << instance, shortcutsHook, liveSanitizer >>

\* The timer of the effect fires three seconds after success or error.
ResetStatus ==
    /\ fileDownload.rendered
    /\ fileDownload.status \in {"success", "error"}
    /\ fileDownload' = [fileDownload EXCEPT !.status = "idle"]
    /\ UNCHANGED << instance, shortcutsHook, liveSanitizer >>

NextDownload ==
    \/ startDownload
    \/ Settle
    \/ ResetStatus

SpecDownload == InitDownload /\ [][NextDownload]_vars

(***************************************************************************)
(* useShortcuts: the navigator of the browser, the shortcuts the component *)
(* passes, the last keydown event of the document and the shortcut that    *)
(* onTrigger was called with.                                              *)
(***************************************************************************)
\* String.prototype.startsWith
startsWith(text, prefix) ==
    Len(prefix) <= Len(text) /\ SubSeq(text, 1, Len(prefix)) = prefix

\* String.prototype.includes
includes(text, part) ==
    \E i \in 0..(Len(text) - Len(part)) : SubSeq(text, i + 1, i + Len(part)) = part

\* navigator.platform and navigator.userAgent of some browsers, and the
\* system they run on.
Navigators ==
    { [os |-> "macOS", platform |-> << "M", "a", "c", "I", "n", "t", "e", "l" >>,
       userAgent |-> << "M", "a", "c", "i", "n", "t", "o", "s", "h" >>],
      [os |-> "macOS", platform |-> << >>,
       userAgent |-> << "M", "a", "c", " ", "O", "S", " ", "X" >>],
      [os |-> "Windows", platform |-> << "W", "i", "n", "3", "2" >>,
       userAgent |-> << "W", "i", "n", "d", "o", "w", "s" >>],
      [os |-> "Linux", platform |-> << "L", "i", "n", "u", "x" >>,
       userAgent |-> << "X", "1", "1", " ", "L", "i", "n", "u", "x" >>],
      [os |-> "iOS", platform |-> << "i", "P", "h", "o", "n", "e" >>,
       userAgent |-> << "i", "P", "h", "o", "n", "e", " ", "M", "a", "c" >>] }

isMacOS(navigator) ==
    \/ startsWith(toLowerCase(navigator.platform), << "m", "a", "c" >>)
    \/ /\ includes(toLowerCase(navigator.userAgent), << "m", "a", "c" >>)
       /\ ~includes(toLowerCase(navigator.userAgent), << "i", "p", "h", "o", "n", "e" >>)
       /\ ~includes(toLowerCase(navigator.userAgent), << "i", "p", "a", "d" >>)

\* A preset: ({ key, ctrlKey: true, enabled }); a property that is not set is
\* no field of the record.
Preset(key, enabled) == [key |-> << key >>, ctrlKey |-> TRUE, enabled |-> enabled]

ShortcutsPresets(enabled) ==
    [SAVE |-> Preset("S", enabled),
     COPY |-> Preset("C", enabled),
     PASTE |-> Preset("V", enabled),
     UNDO |-> Preset("Z", enabled),
     REDO |-> [key |-> << "Z" >>, ctrlKey |-> TRUE, shiftKey |-> TRUE, enabled |-> enabled],
     SELECT_ALL |-> Preset("A", enabled),
     CLOSE |-> Preset("W", enabled),
     OPEN |-> Preset("O", enabled)]

PresetNames == {"SAVE", "COPY", "PASTE", "UNDO", "REDO", "SELECT_ALL", "CLOSE", "OPEN"}

\* Shortcuts a component writes itself, with platformAware set.
CustomShortcuts ==
    { [key |-> << "S" >>, ctrlKey |-> TRUE, platformAware |-> TRUE, enabled |-> TRUE],
      [key |-> << "A" >>, metaKey |-> TRUE, platformAware |-> TRUE, enabled |-> TRUE],
      [key |-> << "E", "s", "c", "a", "p", "e" >>, enabled |-> TRUE] }

\* The arrays passed as shortcuts.
ShortcutLists ==
    {<< ShortcutsPresets(enabled)[name] >> : name \in PresetNames, enabled \in BOOLEAN}
    \cup {<< shortcut >> : shortcut \in CustomShortcuts}
    \cup {<< ShortcutsPresets(TRUE).UNDO, ShortcutsPresets(TRUE).REDO >>}

Modifiers == {"ctrlKey", "altKey", "shiftKey", "metaKey"}

\* event.code of the keys pressed.
Codes ==
    {<< "K", "e", "y", key >> : key \in {"S", "C", "V", "Z", "A", "W", "O"}}
    \cup {<< "E", "s", "c", "a", "p", "e" >>}

KeyboardEvents ==
    {[ctrlKey |-> c, altKey |-> a, shiftKey |-> s, metaKey |-> m, code |-> code] :
        c \in BOOLEAN, a \in BOOLEAN, s \in BOOLEAN, m \in BOOLEAN, code \in Codes}

\* shortcut.name is set and true.
IsTrue(shortcut, name) == name \in DOMAIN shortcut /\ shortcut[name]

\* The modifiers a shortcut asks for after the swap: expectedCtrl,
\* expectedMeta, shortcut.altKey and shortcut.shiftKey where not undefined.
Expected(shortcut, isMac) ==
    IF IsTrue(shortcut, "platformAware") /\ isMac /\ IsTrue(shortcut, "ctrlKey")
    THEN [name \in ((DOMAIN shortcut \cap Modifiers) \ {"ctrlKey"}) \cup {"metaKey"} |->
             IF name = "metaKey" THEN TRUE ELSE shortcut[name]]
    ELSE IF IsTrue(shortcut, "platformAware") /\ ~isMac /\ IsTrue(shortcut, "metaKey")
    THEN [name \in ((DOMAIN shortcut \cap Modifiers) \ {"metaKey"}) \cup {"ctrlKey"} |->
             IF name = "ctrlKey" THEN TRUE ELSE shortcut[name]]
    ELSE [name \in DOMAIN shortcut \cap Modifiers |-> shortcut[name]]

\* keyMatch: a letter key is compared with `Key${shortcut.key}`.
keyMatch(shortcut, code) ==
    IF Len(shortcut.key) = 1 /\ shortcut.key[1] \in UpperSet
    THEN code = << "K", "e", "y" >> \o shortcut.key
    ELSE code = shortcut.key

\* The callback of shortcuts.find
Matches(shortcut, e, isMac) ==
    /\ shortcut.enabled
    /\ keyMatch(shortcut, e.code)
    /\ \A name \in DOMAIN Expected(shortcut, isMac) : Expected(shortcut, isMac)[name] = e[name]

\* shortcuts.find(...): the first shortcut that matches, in a list of one, or
\* the empty list.
matchingShortcut(shortcuts, e, isMac) ==
    IF \E i \in 1..Len(shortcuts) : Matches(shortcuts[i], e, isMac)
    THEN << shortcuts[CHOOSE i \in 1..Len(shortcuts) :
                /\ Matches(shortcuts[i], e, isMac)
                /\ \A h \in 1..(i - 1) : ~Matches(shortcuts[h], e, isMac)] >>
    ELSE << >>

\* The component is mounted and the listener is added to the document.
InitShortcuts ==
    /\ Page({"moderate"})
    /\ fileDownload = NotRendered
    /\ liveSanitizer = NotRendered
    /\ \E navigator \in Navigators, shortcuts \in ShortcutLists :
          shortcutsHook = [rendered |-> TRUE, navigator |-> navigator, shortcuts |-> shortcuts,
                           event |-> << >>, triggered |-> << >>, defaultPrevented |-> FALSE]

\* A keydown event of the document: handleShortCut(e).
handleShortCut ==
    /\ shortcutsHook.rendered
    /\ \E e \in KeyboardEvents :
          shortcutsHook' =
              [shortcutsHook EXCEPT
                  !.event = << e >>,
                  !.triggered = matchingShortcut(shortcutsHook.shortcuts, e,
                                                 isMacOS(shortcutsHook.navigator)),
                  !.defaultPrevented = matchingShortcut(shortcutsHook.shortcuts, e,
                                                        isMacOS(shortcutsHook.navigator)) # << >>]
    /\ UNCHANGED << instance, fileDownload, liveSanitizer >>

\* The component unmounts: the cleanup of the effect removes the listener.
UnmountShortcuts ==
    /\ shortcutsHook.rendered
    /\ shortcutsHook' = [shortcutsHook EXCEPT !.rendered = FALSE]
    /\ UNCHANGED << instance, fileDownload, liveSanitizer >>

NextShortcuts ==
    \/ handleShortCut
    \/ UnmountShortcuts

SpecShortcuts == InitShortcuts /\ [][NextShortcuts]_vars

(***************************************************************************)
(* useLiveSanitizer: the state of the component (content, sanitized,       *)
(* isProcessing), timeoutRef, the timers of the browser that are pending   *)
(* with the content their callback closed over, and the time since the     *)
(* last change. The moderator of the hook is the instance of the page.     *)
(* A change of the content is a discrete event: React renders and runs     *)
(* the cleanup and the effect before the event handler returns.            *)
(***************************************************************************)
MaxChanges == 3

\* The delay of the hook in ticks of the clock.
Delays == {1, 2}

\* The contents typed into the editor.
LiveTexts ==
    {<< >>, << "a" >>, << "a", "s", "s" >>, << "@", "s", "s" >>, << "a", "s", "s", " ", "a" >>}

\* clearTimeout(id) with the id ignored.
clearTimeoutIgnored(timers, id) == timers

\* clearTimeout(id): the timer with this id is no longer pending; the id 0 is
\* the null of timeoutRef.current.
clearTimeout(timers, id) == {timer \in timers : timer.id # id}

\* setTimeout(callback, delay): a pending timer whose callback closed over
\* the content of the render.
setTimeout(timers, id, text, delay) ==
    timers \cup {[id |-> id, content |-> text, remaining |-> delay]}

\* The first render: useState(''), useState(''), useState(false), useRef(null).
FirstRender(delay) ==
    [rendered |-> TRUE, delay |-> delay, content |-> << >>, sanitized |-> << >>,
     isProcessing |-> FALSE, timeoutRef |-> 0, timers |-> {}, nextId |-> 1,
     sinceChange |-> 0, changes |-> 0, fired |-> 0]

\* The effect of a render whose content is new, after the cleanup of the
\* effect before it: both clear the timer of timeoutRef.current.
RunEffect(hook) ==
    [hook EXCEPT
        !.isProcessing = TRUE,
        !.timers = setTimeout(clearTimeout(clearTimeout(hook.timers, hook.timeoutRef),
                                           hook.timeoutRef),
                              hook.nextId, hook.content, hook.delay),
        !.timeoutRef = hook.nextId,
        !.nextId = @ + 1,
        !.sinceChange = 0]

\* The component is mounted with the options of the hook and its first
\* effect has run.
InitLive ==
    /\ Page({"moderate", "off"})
    /\ fileDownload = NotRendered
    /\ shortcutsHook = NotRendered
    /\ \E delay \in Delays : liveSanitizer = RunEffect(FirstRender(delay))

\* setContent(text) with a new text: the render, the cleanup and the effect.
setContent ==
    /\ liveSanitizer.rendered
    /\ liveSanitizer.changes < MaxChanges
    /\ \E text \in LiveTexts \ {liveSanitizer.content} :
          liveSanitizer' = RunEffect([liveSanitizer EXCEPT !.content = text, !.changes = @ + 1])
    /\ UNCHANGED << instance, fileDownload, shortcutsHook >>

\* A tick of the clock while a timer is not due.
Tick ==
    /\ \E timer \in liveSanitizer.timers : timer.remaining > 0
    /\ liveSanitizer' =
          [liveSanitizer EXCEPT
              !.timers = {[timer EXCEPT !.remaining = Max(0, @ - 1)] : timer \in liveSanitizer.timers},
              !.sinceChange = Min(liveSanitizer.delay, @ + 1)]
    /\ UNCHANGED << instance, fileDownload, shortcutsHook >>

\* The callback of a timer that is due:
\* setSanitized(sanitize(content)); setIsProcessing(false)
TimerFires ==
    /\ \E timer \in liveSanitizer.timers :
          /\ timer.remaining = 0
          /\ liveSanitizer' =
                [liveSanitizer EXCEPT
                    !.timers = @ \ {timer},
                    !.sanitized = sanitize(wordLibrary, moderationLevel, censorChar, timer.content),
                    !.isProcessing = FALSE,
                    !.fired = @ + 1]
    /\ UNCHANGED << instance, fileDownload, shortcutsHook >>

\* The component unmounts: the cleanup of the effect clears the timer.
UnmountLive ==
    /\ liveSanitizer.rendered
    /\ liveSanitizer' =
          [liveSanitizer EXCEPT
              !.rendered = FALSE,
              !.timers = clearTimeout(liveSanitizer.timers, liveSanitizer.timeoutRef)]
    /\ UNCHANGED << instance, fileDownload, shortcutsHook >>

NextLive ==
    \/ setContent
    \/ Tick
    \/ TimerFires
    \/ UnmountLive

SpecLive == InitLive /\ [][NextLive]_vars

(***************************************************************************)
(* Definitions the properties are stated with.                             *)
(***************************************************************************)
Returned == pc = "returned"

\* The offsets [position, position + word.length) of a match.
Span(m) == {k \in 0..MaxLen + 1 : m.position <= k /\ k < m.position + Len(m.word)}

MatchSet(r) == Range(r.matches)

\* The result of moderate on this library and text at another level.
ResultAt(level) == moderate(wordLibrary, level, censorChar, content)

RECURSIVE OccurrencesFrom(_, _, _)
\* Every occurrence a candidate's pattern finds in the text, accepted or not.
OccurrencesFrom(pat, text, lastIndex) ==
    LET m == exec(pat, text, lastIndex)
    IN  IF ~m.found \/ m.end = m.index THEN {}
        ELSE {[word |-> slice(text, m.groupStart, m.groupEnd),
               position |-> matchStart(text, m)]}
             \cup OccurrencesFrom(pat, text, m.end)

Occurrences(word, text) == OccurrencesFrom(createWordPattern(word), text, 0)

\* The candidates scanned at a level: the words and variants of the blocked entries.
BlockedCandidates(level) ==
    {c \in Range(Candidates(wordLibrary, "strict")) : shouldBlock(level, c.entry.severity)}

(***************************************************************************)
(* C1: the matches of one moderate call have pairwise disjoint ranges      *)
(* [position, position + word.length), whatever the library, the level and *)
(* the censor character.                                                   *)
(***************************************************************************)
C1_NonOverlap ==
    Returned =>
        \A i, j \in 1..Len(result.matches) :
            i # j => Span(result.matches[i]) \cap Span(result.matches[j]) = {}

\* Two matches are reported, and an occurrence of a candidate that runs into
\* one of them was discarded.
C1_Witness ==
    /\ Returned
    /\ Len(result.matches) >= 2
    /\ \E c \in BlockedCandidates(moderationLevel) :
          \E o \in Occurrences(c.word, content) :
              /\ \A m \in MatchSet(result) : o.position # m.position \/ o.word # m.word
              /\ \E m \in MatchSet(result) : Span(o) \cap Span(m) # {}

(***************************************************************************)
(* C2 as stated: for a fixed library and text the matches (word, severity, *)
(* position) reported at STRICT include those reported at MODERATE, which  *)
(* include those reported at RELAXED, which include those reported at OFF. *)
(***************************************************************************)
C2_SupersetChain ==
    (Returned /\ moderationLevel = "strict") =>
        /\ MatchSet(ResultAt("moderate")) \subseteq MatchSet(result)
        /\ MatchSet(ResultAt("relaxed")) \subseteq MatchSet(ResultAt("moderate"))
        /\ MatchSet(ResultAt("off")) \subseteq MatchSet(ResultAt("relaxed"))

\* The test of isPositionCensored between the ranges of two matches.
RangesCollide(m, n) ==
    LET start == m.position
        end == m.position + Len(m.word)
        cStart == n.position
        cEnd == n.position + Len(n.word)
    IN  \/ (start >= cStart /\ start < cEnd)
        \/ (end > cStart /\ end <= cEnd)
        \/ (start <= cStart /\ end >= cEnd)

KeptOrDisplaced(lower, higher) ==
    \A m \in MatchSet(lower) :
        m \in MatchSet(higher) \/ \E n \in MatchSet(higher) : RangesCollide(m, n)

(***************************************************************************)
(* C2 as amended: OFF reports no match, and every match reported at a      *)
(* level is, at each stricter level, either reported unchanged or          *)
(* displaced by a reported match whose range overlaps its own.             *)
(***************************************************************************)
C2_KeptOrDisplaced ==
    (Returned /\ moderationLevel = "strict") =>
        /\ KeptOrDisplaced(ResultAt("moderate"), result)
        /\ KeptOrDisplaced(ResultAt("relaxed"), ResultAt("moderate"))
        /\ KeptOrDisplaced(ResultAt("relaxed"), result)
        /\ MatchSet(ResultAt("off")) = {}

\* A match reported at RELAXED is displaced at STRICT.
C2_Witness ==
    /\ Returned
    /\ moderationLevel = "strict"
    /\ \E m \in MatchSet(ResultAt("relaxed")) : m \notin MatchSet(result)

(***************************************************************************)
(* C3: every reported match is preceded by the start of the text or a      *)
(* non-alphanumeric character and followed by the end of the text or a     *)
(* non-alphanumeric character.                                             *)
(***************************************************************************)
C3_TokenBoundaries ==
    Returned =>
        \A m \in MatchSet(result) :
            /\ m.position = 0 \/ ~IsAlphanumeric(content[m.position])
            /\ \/ m.position + Len(m.word) = Len(content)
               \/ ~IsAlphanumeric(content[m.position + Len(m.word) + 1])

(***************************************************************************)
(* Renderings of a word: each letter in either case or replaced by one of  *)
(* its substitutes, with any number of spaces, underscores or hyphens      *)
(* between consecutive letters.                                            *)
(***************************************************************************)
TableSubstitutes(letter) ==
    CASE letter = "a" -> {"@", "4"}
      [] letter = "e" -> {"3"}
      [] letter = "i" -> {"1", "!"}
      [] letter = "o" -> {"0"}
      [] letter = "s" -> {"$", "5"}
      [] OTHER -> {}

LetterRenderings(letter) ==
    {letter, CharToUpperCase(letter)} \cup TableSubstitutes(letter)

InsertedSeparators == {" ", "_", "-"}

RECURSIVE IsRendering(_, _)
IsRendering(r, w) ==
    IF w = << >> THEN r = << >>
    ELSE IF r = << >> THEN FALSE
    ELSE \/ /\ Head(r) \in LetterRenderings(Head(w))
            /\ \/ IsRendering(Tail(r), Tail(w))
               \/ /\ Len(w) > 1
                  /\ \E k \in 1..(Len(r) - 1) :
                        /\ \A i \in 2..(k + 1) : r[i] \in InsertedSeparators
                        /\ IsRendering(SubSeq(r, k + 2, Len(r)), Tail(w))

IsAsciiWord(w) == w # << >> /\ \A i \in 1..Len(w) : w[i] \in LowerSet \cup UpperSet

\* The renderings of w in the text that start at the start of the text or
\* after a space and end at the end of the text or before a space.
DelimitedRenderings(text, w) ==
    {<< p, q >> \in (0..Len(text)) \X (0..Len(text)) :
        /\ p < q
        /\ p = 0 \/ IsSpace(text[p])
        /\ q = Len(text) \/ IsSpace(text[q + 1])
        /\ IsRendering(slice(text, p, q), w)}

(***************************************************************************)
(* C4: a text that holds a rendering of a blocked library word of ASCII    *)
(* letters, delimited by the ends of the text or by whitespace, is         *)
(* reported not clean by every call that returns.                          *)
(***************************************************************************)
C4_RenderingsDetected ==
    Returned =>
        \A i \in 1..Len(wordLibrary) :
            (/\ IsAsciiWord(wordLibrary[i].word)
             /\ shouldBlock(moderationLevel, wordLibrary[i].severity)
             /\ DelimitedRenderings(content, wordLibrary[i].word) # {})
                => ~result.isClean

\* A rendering with a substituted letter and an inserted separator is found.
C4_Witness ==
    /\ Returned
    /\ ~result.isClean
    /\ \E i \in 1..Len(wordLibrary) :
          /\ shouldBlock(moderationLevel, wordLibrary[i].severity)
          /\ \E span \in DelimitedRenderings(content, wordLibrary[i].word) :
                /\ "@" \in Range(slice(content, span[1], span[2]))
                /\ "_" \in Range(slice(content, span[1], span[2]))

(***************************************************************************)
(* C5: sanitized is the text with the span of every reported match         *)
(* replaced by the censor character repeated to the length of the match    *)
(* and every other character unchanged; with a censor character of length  *)
(* one it is as long as the text.                                          *)
(***************************************************************************)
RECURSIVE ExpectedSanitized(_, _, _, _)
\* The text from offset p on, read left to right.
ExpectedSanitized(text, ms, char, p) ==
    LET here == {m \in ms : m.position = p /\ Len(m.word) > 0}
    IN  IF p >= Len(text) THEN << >>
        ELSE IF here # {}
        THEN LET m == CHOOSE x \in here : TRUE
             IN  [i \in 1..(Len(m.word) * Len(char)) |-> char[((i - 1) % Len(char)) + 1]]
                 \o ExpectedSanitized(text, ms, char, p + Len(m.word))
        ELSE << text[p + 1] >> \o ExpectedSanitized(text, ms, char, p + 1)

C5_SanitizedSpans ==
    Returned =>
        /\ result.sanitized = ExpectedSanitized(content, MatchSet(result), censorChar, 0)
        /\ sanitize(wordLibrary, moderationLevel, censorChar, content) = result.sanitized
        /\ Len(censorChar) = 1 => Len(result.sanitized) = Len(content)

\* Two matches are censored with a censor character of length one, and a
\* character between them is left as it was.
C5_Witness ==
    /\ Returned
    /\ Len(censorChar) = 1
    /\ Len(result.matches) >= 2
    /\ \E k \in 1..Len(content) :
          /\ \A m \in MatchSet(result) : (k - 1) \notin Span(m)
          /\ result.sanitized[k] = content[k]

(***************************************************************************)
(* C6: every reported match has a severity blocked at the level of the     *)
(* instance: none at OFF, SEVERE and EXTREME at RELAXED, MODERATE, SEVERE  *)
(* and EXTREME at MODERATE, all four at STRICT.                            *)
(***************************************************************************)
BlockedAt(level) ==
    CASE level = "off" -> {}
      [] level = "relaxed" -> {"severe", "absolutely not"}
      [] level = "moderate" -> {"moderate", "severe", "absolutely not"}
      [] level = "strict" -> {"mild", "moderate", "severe", "absolutely not"}

RankOf(severity) ==
    CASE severity = "mild" -> 1
      [] severity = "moderate" -> 2
      [] severity = "severe" -> 3
      [] severity = "absolutely not" -> 4

C7_HighestSeverity ==
    Returned =>
        /\ (result.severity = Null) = (result.matches = << >>)
        /\ (result.matches = << >>) = result.isClean
        /\ result.isClean = (result.foundWords = << >>)
        /\ result.matches # << >> =>
              /\ \E m \in MatchSet(result) : m.severity = result.severity
              /\ \A m \in MatchSet(result) : RankOf(m.severity) <= RankOf(result.severity)

\* Matches of two severities are reported.
C7_Witness ==
    /\ Returned
    /\ \E m, n \in MatchSet(result) : RankOf(m.severity) < RankOf(n.severity)

(***************************************************************************)
(* C8 as stated: foundWords lists the matched words with duplicates        *)
(* removed, in the order of the position of their first occurrence.        *)
(***************************************************************************)
FirstPosition(r, word) ==
    CHOOSE p \in {m.position : m \in {x \in MatchSet(r) : x.word = word}} :
        \A m \in MatchSet(r) : m.word = word => p <= m.position

NoDuplicates(words) == \A i, j \in 1..Len(words) : i # j => words[i] # words[j]

C8_OrderOfAppearance ==
    Returned =>
        /\ NoDuplicates(result.foundWords)
        /\ Range(result.foundWords) = {m.word : m \in MatchSet(result)}
        /\ \A i, j \in 1..Len(result.foundWords) :
              i < j => FirstPosition(result, result.foundWords[i])
                          < FirstPosition(result, result.foundWords[j])

\* The place of a candidate in the scan: the longer word first, and among
\* words of one length the one that comes first in the library.
ScanRank(lib, level, word) ==
    LET cands == Candidates(lib, level)
        i == CHOOSE k \in 1..Len(cands) :
                /\ cands[k].word = word
                /\ \A h \in 1..(k - 1) : cands[h].word # word
    IN  Cardinality({k \in 1..Len(cands) :
            \/ Len(cands[k].word) > Len(word)
            \/ (Len(cands[k].word) = Len(word) /\ k < i)})

\* The candidate that reported a match is the first in the scan with that
\* occurrence; the discovery of a match is that rank, then its position.
DiscoveryOf(m) ==
    LET finders == {c \in BlockedCandidates(moderationLevel) :
                       [word |-> m.word, position |-> m.position]
                           \in Occurrences(c.word, content)}
        rank == CHOOSE r \in {ScanRank(wordLibrary, moderationLevel, c.word) : c \in finders} :
                    \A c \in finders : r <= ScanRank(wordLibrary, moderationLevel, c.word)
    IN  << rank, m.position >>

Earlier(d, e) == d[1] < e[1] \/ (d[1] = e[1] /\ d[2] < e[2])

FirstDiscovery(word) ==
    CHOOSE d \in {DiscoveryOf(m) : m \in {x \in MatchSet(result) : x.word = word}} :
        \A m \in MatchSet(result) : m.word = word => (d = DiscoveryOf(m) \/ Earlier(d, DiscoveryOf(m)))

(***************************************************************************)
(* C8 as amended: foundWords lists the matched words with duplicates       *)
(* removed, in the order in which the scan first found them: candidates    *)
(* longest first and in library order among equal lengths, each candidate  *)
(* from left to right.                                                     *)
(***************************************************************************)
C8_OrderOfDiscovery ==
    Returned =>
        /\ NoDuplicates(result.foundWords)
        /\ Range(result.foundWords) = {m.word : m \in MatchSet(result)}
        /\ \A i, j \in 1..Len(result.foundWords) :
              i < j => Earlier(FirstDiscovery(result.foundWords[i]),
                               FirstDiscovery(result.foundWords[j]))

\* A word found first stands later in the text than a word found after it.
C8_Witness ==
    /\ Returned
    /\ \E i, j \in 1..Len(result.foundWords) :
          /\ i < j
          /\ FirstPosition(result, result.foundWords[i])
                > FirstPosition(result, result.foundWords[j])

(***************************************************************************)
(* C9: the word of every match is the text found at its position:          *)
(* 0 <= position, position + word.length <= text.length and                *)
(* text.slice(position, position + word.length) = word.                    *)
(***************************************************************************)
C9_WordAtPosition ==
    Returned =>
        \A m \in MatchSet(result) :
            /\ 0 <= m.position
            /\ m.position + Len(m.word) <= Len(content)
            /\ SubSeq(content, m.position + 1, m.position + Len(m.word)) = m.word

\* A match after a separator, in letters not of the case of the library.
C9_Witness ==
    /\ Returned
    /\ \E m \in MatchSet(result) :
          /\ m.position > 0
          /\ ~IsAlphanumeric(content[m.position])
          /\ m.word # toLowerCase(m.word)

(***************************************************************************)
(* C10: the library holds at most one entry for a lowercase word: every    *)
(* stored word is lowercase, adding a word that is present in any case     *)
(* overwrites its entry and leaves the count as it was, and hasWord,       *)
(* getWordInfo and removeWord find the entry whatever the case of their    *)
(* argument.                                                               *)
(***************************************************************************)
C10_OneEntryPerLowercaseWord ==
    /\ \A i \in 1..Len(wordLibrary) : wordLibrary[i].word = toLowerCase(wordLibrary[i].word)
    /\ \A i, j \in 1..Len(wordLibrary) : i # j => wordLibrary[i].word # wordLibrary[j].word
    /\ \A in \in WordInputs :
          LET after == addWord(wordLibrary, in.word, in.severity, in.alternatives, in.variants)
              held == {i \in 1..Len(wordLibrary) : wordLibrary[i].word = toLowerCase(in.word)}
          IN  /\ held # {} => Len(after) = Len(wordLibrary)
              /\ held = {} => Len(after) = Len(wordLibrary) + 1
              /\ Cardinality({i \in 1..Len(after) : after[i].word = toLowerCase(in.word)}) = 1
              /\ \A i \in 1..Len(after) :
                    after[i].word = toLowerCase(in.word) => after[i].severity = in.severity
    /\ \A word \in WordArgs :
          \A i \in 1..Len(wordLibrary) :
              wordLibrary[i].word = toLowerCase(word) =>
                  /\ hasWord(wordLibrary, word)
                  /\ getWordInfo(wordLibrary, word) = wordLibrary[i]
                  /\ Len(removeWord(wordLibrary, word)) = Len(wordLibrary) - 1
                  /\ ~hasWord(removeWord(wordLibrary, word), word)

\* An entry given in mixed case is held in lowercase among other entries,
\* and there are arguments in another case to look it up with.
C10_Witness ==
    /\ \E i \in 1..Len(wordLibrary) :
          /\ wordLibrary[i].word = << "a", "s" >>
          /\ wordLibrary[i].severity = "absolutely not"
    /\ Len(wordLibrary) > 1
    /\ \E word \in WordArgs : word # toLowerCase(word) /\ hasWord(wordLibrary, word)

(***************************************************************************)
(* C11 as stated: after importLibrary(entries) every entry that was in the *)
(* library before the call is still present with its severity,             *)
(* alternatives and variants unchanged, and the imported entries are       *)
(* added.                                                                  *)
(***************************************************************************)
\* Strict equality of two optional arrays: undefined equals undefined alone.
SameOptional(a, b) == IF a = Null THEN b = Null ELSE (b # Null /\ a = b)

SameEntry(a, b) ==
    /\ a.word = b.word
    /\ a.severity = b.severity
    /\ SameOptional(a.alternatives, b.alternatives)
    /\ a.variants = b.variants

LowerWords(entries) == {toLowerCase(entries[i].word) : i \in 1..Len(entries)}

\* The last entry of the array with the word, which is the one that stays.
LastImported(entries, word) ==
    entries[CHOOSE i \in 1..Len(entries) :
                /\ toLowerCase(entries[i].word) = word
                /\ \A j \in (i + 1)..Len(entries) : toLowerCase(entries[j].word) # word]

ImportedPresent(before, after, entries) ==
    \A word \in LowerWords(entries) :
        \E j \in 1..Len(after) :
            /\ after[j].word = word
            /\ after[j].severity = LastImported(entries, word).severity
            /\ SameOptional(after[j].alternatives, LastImported(entries, word).alternatives)

ImportStep(jsonData) ==
    /\ pc = "idle"
    /\ wordLibrary' = importLibrary(wordLibrary, jsonData)

C11_ImportKeepsEveryEntry ==
    [][\A jsonData \in EntryLists :
          ImportStep(jsonData) =>
              /\ \A i \in 1..Len(wordLibrary) :
                    \E j \in 1..Len(wordLibrary') : SameEntry(wordLibrary'[j], wordLibrary[i])
              /\ ImportedPresent(wordLibrary, wordLibrary', jsonData)]_vars

(***************************************************************************)
(* C11 as amended: after importLibrary(entries) every entry whose word is  *)
(* not among the imported words (compared in lowercase) is still present   *)
(* unchanged, every imported word is present with the severity and the     *)
(* alternatives last imported for it, and the library holds no other       *)
(* entry; an entry whose word is imported again is overwritten.            *)
(***************************************************************************)
C11_ImportKeepsOtherEntries ==
    [][\A jsonData \in EntryLists :
          ImportStep(jsonData) =>
              /\ \A i \in 1..Len(wordLibrary) :
                    wordLibrary[i].word \notin LowerWords(jsonData) =>
                        \E j \in 1..Len(wordLibrary') : SameEntry(wordLibrary'[j], wordLibrary[i])
              /\ ImportedPresent(wordLibrary, wordLibrary', jsonData)
              /\ {wordLibrary'[j].word : j \in 1..Len(wordLibrary')}
                    = {wordLibrary[i].word : i \in 1..Len(wordLibrary)} \cup LowerWords(jsonData)
              /\ Len(wordLibrary') = Cardinality({wordLibrary'[j].word : j \in 1..Len(wordLibrary')})]_vars

\* Two entries were imported into a library that held an entry with variants
\* and an entry of one of the imported words with another severity: the
\* first is kept as it was, the second is overwritten.
C11_Witness ==
    /\ \E i \in 1..Len(wordLibrary) : wordLibrary[i].variants # << >>
    /\ \E i \in 1..Len(wordLibrary) :
          /\ wordLibrary[i].word = << "a", "s" >>
          /\ wordLibrary[i].severity = "absolutely not"
    /\ \E i, j \in 1..Len(wordLibrary) :
          /\ i < j
          /\ wordLibrary[i].word = << "a", "s" >>
          /\ wordLibrary[j].word = << "s" >>
    /\ Len(wordLibrary) > 3

(***************************************************************************)
(* C12: exportLibrary() followed by clearLibrary() and                     *)
(* importLibrary(exported) yields a library with the same word count and,  *)
(* for every word, the same severity and alternatives as before.           *)
(***************************************************************************)
RoundTrip(lib) == importLibrary(clearLibrary(lib), exportLibrary(lib))

C12_ExportImportRoundTrip ==
    /\ Len(RoundTrip(wordLibrary)) = Len(wordLibrary)
    /\ \A i \in 1..Len(wordLibrary) :
          \E j \in 1..Len(RoundTrip(wordLibrary)) :
              /\ RoundTrip(wordLibrary)[j].word = wordLibrary[i].word
              /\ RoundTrip(wordLibrary)[j].severity = wordLibrary[i].severity
              /\ SameOptional(RoundTrip(wordLibrary)[j].alternatives,
                              wordLibrary[i].alternatives)

\* The library holds entries with and without alternatives and an entry with
\* variants, which the round trip does not give back as it was.
C12_Witness ==
    /\ \E i \in 1..Len(wordLibrary) : wordLibrary[i].alternatives = Null
    /\ \E i \in 1..Len(wordLibrary) :
          wordLibrary[i].alternatives # Null /\ wordLibrary[i].word = << "a", "s" >>
    /\ \E i \in 1..Len(wordLibrary) :
          /\ wordLibrary[i].variants # << >>
          /\ RoundTrip(wordLibrary)[i].variants = << >>

(***************************************************************************)
(* C13: variants are treated as equivalent to the word of their entry for  *)
(* matching: for every entry supplied with a list of variants through      *)
(* addWord, addWords or importLibrary whose severity is blocked at the     *)
(* current level, a text consisting of one of its variants is reported not *)
(* clean with the severity of that entry.                                  *)
(***************************************************************************)
VariantsDetected(lib, level, char, entry) ==
    shouldBlock(level, entry.severity) =>
        \A k \in 1..Len(entry.variants) :
            /\ moderate(lib, level, char, entry.variants[k]).returned
            /\ ~moderate(lib, level, char, entry.variants[k]).isClean
            /\ moderate(lib, level, char, entry.variants[k]).severity = entry.severity

\* The entries supplied through addWord.
C13_VariantsOfAddWord ==
    \A in \in VariantInputs :
        VariantsDetected(
            addWord(wordLibrary, in.word, in.severity, in.alternatives, in.variants),
            moderationLevel, censorChar, in)

C13_VariantsDetected ==
    /\ C13_VariantsOfAddWord
    /\ \A entries \in EntryLists : \A i \in 1..Len(entries) :
          /\ VariantsDetected(addWords(wordLibrary, entries),
                              moderationLevel, censorChar, entries[i])
          /\ VariantsDetected(importLibrary(wordLibrary, entries),
                              moderationLevel, censorChar, entries[i])

(***************************************************************************)
(* C14: moderateSentence(text, true) replaces each match reported by       *)
(* moderate(text) with the first alternative of the library entry that     *)
(* produced the match when that entry has at least one alternative, and    *)
(* with censorChar repeated to the length of the match otherwise; all text *)
(* outside the matches is unchanged.                                       *)
(***************************************************************************)
\* The entry whose candidate reported the match: the first candidate of the
\* scan whose pattern finds that occurrence.
ProducerOf(m) ==
    LET finders == {c \in BlockedCandidates(moderationLevel) :
                       [word |-> m.word, position |-> m.position]
                           \in Occurrences(c.word, content)}
    IN  (CHOOSE c \in finders :
            \A d \in finders : ScanRank(wordLibrary, moderationLevel, c.word)
                                  <= ScanRank(wordLibrary, moderationLevel, d.word)).entry

ExpectedReplacement(m) ==
    IF HasAlternatives(ProducerOf(m)) THEN ProducerOf(m).alternatives[1]
    ELSE repeat(censorChar, Len(m.word))

RECURSIVE ExpectedStructured(_, _, _)
ExpectedStructured(text, ms, p) ==
    LET here == {m \in ms : m.position = p /\ Len(m.word) > 0}
    IN  IF p >= Len(text) THEN << >>
        ELSE IF here # {}
        THEN ExpectedReplacement(CHOOSE x \in here : TRUE)
                 \o ExpectedStructured(text, ms, p + Len((CHOOSE x \in here : TRUE).word))
        ELSE << text[p + 1] >> \o ExpectedStructured(text, ms, p + 1)

C14_FirstAlternativeOfProducer ==
    Returned =>
        moderateSentence(wordLibrary, moderationLevel, censorChar, content, TRUE).sanitized
            = ExpectedStructured(content, MatchSet(result), 0)

\* The part of the claim the lookup of the entry leaves standing: the matches
\* whose text is, in lowercase, the word or a variant of their entry.
C14_LiteralMatches ==
    (Returned /\ \A m \in MatchSet(result) : EntryHasWord(ProducerOf(m), m.word)) =>
        moderateSentence(wordLibrary, moderationLevel, censorChar, content, TRUE).sanitized
            = ExpectedStructured(content, MatchSet(result), 0)

(***************************************************************************)
(* C15: getProfanityScore(text) equals round(min(100, 10 * P / W)), where  *)
(* P is the sum over the matches of moderate(text) of 10 (MILD), 25        *)
(* (MODERATE), 50 (SEVERE) or 100 (EXTREME) and W is the number of         *)
(* whitespace-delimited words in text.                                     *)
(***************************************************************************)
\* The words of a text: its maximal runs of characters that are not whitespace.
WordsIn(text) ==
    Cardinality({i \in 1..Len(text) :
                    ~IsSpace(text[i]) /\ (i = 1 \/ IsSpace(text[i - 1]))})

PointsOf(ms) ==
    10 * Cardinality({m \in ms : m.severity = "mild"})
    + 25 * Cardinality({m \in ms : m.severity = "moderate"})
    + 50 * Cardinality({m \in ms : m.severity = "severe"})
    + 100 * Cardinality({m \in ms : m.severity = "absolutely not"})

\* round(min(100, 10 * P / W)): 0 when P is 0, 100 when P is not and W is 0.
ClaimedScore(P, W) ==
    IF P = 0 THEN 0
    ELSE IF 10 * P >= 100 * W THEN 100
    ELSE (20 * P + W) \div (2 * W)

C15_ScoreFormula ==
    Returned =>
        getProfanityScore(wordLibrary, moderationLevel, censorChar, content)
            = ClaimedScore(PointsOf(MatchSet(result)), WordsIn(content))

\* The texts for which the pieces of the split are the words: those that
\* neither start nor end with whitespace.
C15_TrimmedTexts ==
    (/\ Returned
     /\ content # << >>
     /\ ~IsSpace(content[1])
     /\ ~IsSpace(content[Len(content)])) =>
        getProfanityScore(wordLibrary, moderationLevel, censorChar, content)
            = ClaimedScore(PointsOf(MatchSet(result)), WordsIn(content))

(***************************************************************************)
(* C16: getProfanityScore(text) is 0 exactly when the text is clean: it is *)
(* greater than 0 for every text in which moderate finds at least one      *)
(* match, so isWithinThreshold(text, 0) equals isClean(text).              *)
(***************************************************************************)
C16_ZeroScoreExactlyWhenClean ==
    Returned =>
        /\ (getProfanityScore(wordLibrary, moderationLevel, censorChar, content) = 0)
              = result.isClean
        /\ result.matches # << >> =>
              getProfanityScore(wordLibrary, moderationLevel, censorChar, content) > 0
        /\ isWithinThreshold(wordLibrary, moderationLevel, censorChar, content, 0)
              = isClean(wordLibrary, moderationLevel, censorChar, content)

\* The part of the claim that stands: a clean text has the score 0, and a
\* text that is not clean has a score above 0 when its pieces are at most
\* twenty times its points.
C16_ShortTexts ==
    Returned =>
        /\ result.isClean =>
              getProfanityScore(wordLibrary, moderationLevel, censorChar, content) = 0
        /\ (~result.isClean /\ wordCount(content) <= 20 * totalPoints(result.matches)) =>
              getProfanityScore(wordLibrary, moderationLevel, censorChar, content) > 0

(***************************************************************************)
(* C17: validate(text, options) reports failures as values: isValid is     *)
(* false exactly when at least one supplied ceiling is exceeded (score >   *)
(* maxProfanityScore, severity rank > rank of maxSeverity, number of       *)
(* profane words > maxProfaneWords), reasons holds exactly one entry per   *)
(* exceeded ceiling, and isValid is true exactly when reasons is empty.    *)
(***************************************************************************)
\* The supplied ceilings that the text of the last call of moderate exceeds.
ExceededCeilings(score, options) ==
    {key \in DOMAIN options :
        \/ /\ key = "maxProfanityScore"
           /\ score > options.maxProfanityScore
        \/ /\ key = "maxSeverity"
           /\ result.severity # Null
           /\ RankOf(result.severity) > RankOf(options.maxSeverity)
        \/ /\ key = "maxProfaneWords"
           /\ Cardinality({m.word : m \in MatchSet(result)}) > options.maxProfaneWords}

ValidatedAsClaimed(v, exceeded) ==
    /\ v.isValid = (exceeded = {})
    /\ Len(v.reasons) = Cardinality(exceeded)
    /\ {v.reasons[i].ceiling : i \in 1..Len(v.reasons)} = exceeded
    /\ v.isValid = (v.reasons = << >>)

\* validate(content, options) on the instance as it is: its call of moderate
\* returns the result of the last call, its call of getProfanityScore the
\* score of that result.
Validation(options) == ValidationOf(result, ScoreOfResult(result, content), options)

AllCeilings == [maxProfanityScore |-> 50, maxSeverity |-> "moderate", maxProfaneWords |-> 1]

C17_ValidateReportsCeilings ==
    Returned =>
        /\ \A options \in ValidateOptions :
              ValidatedAsClaimed(Validation(options),
                                 ExceededCeilings(ScoreOfResult(result, content), options))
        /\ validate(wordLibrary, moderationLevel, censorChar, content, AllCeilings)
              = Validation(AllCeilings)

\* A text exceeds the three ceilings at once and validate gives three reasons,
\* while the same text passes a ceiling it is within.
C17_Witness ==
    /\ Returned
    /\ Len(Validation(AllCeilings).reasons) = 3
    /\ ~Validation(AllCeilings).isValid
    /\ \E options \in ValidateOptions : DOMAIN options # {} /\ Validation(options).isValid

(***************************************************************************)
(* C18: moderate (and therefore isClean, sanitize, getProfanityScore and   *)
(* validate) terminates and returns a result for every input text, the     *)
(* empty and the whitespace-only strings included, and for every library   *)
(* reachable through addWord, addWords and importLibrary, entries whose     *)
(* word is the empty string or consists only of punctuation included.      *)
(***************************************************************************)
C18_ModerateReturns == pc # "hung"

\* The part of the claim that stands: a call that does not return scans a
\* candidate that is the empty string.
C18_EmptyWordAlone ==
    pc = "hung" => \E c \in BlockedCandidates(moderationLevel) : c.word = << >>

(***************************************************************************)
(* C19: the analysis operations (moderate, isClean, sanitize,              *)
(* moderateSentence, highlight, countBySeverity, getProfanityScore,        *)
(* validate, getDetailedReport, moderateBatch, filterClean, filterProfane) *)
(* leave the word library, the moderation level and censorChar unchanged,  *)
(* so two calls of the same operation with the same text on an instance    *)
(* that was not mutated in between return equal results.                   *)
(***************************************************************************)
\* What a further call of the operation with the same arguments returns on
\* the instance as it is.
CalledAgain(operation, argument, arguments) ==
    CASE operation = "isClean" ->
            isClean(wordLibrary, moderationLevel, censorChar, argument)
      [] operation = "sanitize" ->
            sanitize(wordLibrary, moderationLevel, censorChar, argument)
      [] operation = "moderateSentence" ->
            moderateSentence(wordLibrary, moderationLevel, censorChar, argument, arguments[1])
      [] operation = "highlight" ->
            highlight(wordLibrary, moderationLevel, censorChar, argument,
                      arguments[1], arguments[2])
      [] operation = "countBySeverity" ->
            countBySeverity(wordLibrary, moderationLevel, censorChar, argument)
      [] operation = "getProfanityScore" ->
            getProfanityScore(wordLibrary, moderationLevel, censorChar, argument)
      [] operation = "validate" ->
            validate(wordLibrary, moderationLevel, censorChar, argument, arguments[1])
      [] operation = "getDetailedReport" ->
            getDetailedReport(wordLibrary, moderationLevel, censorChar, argument)
      [] operation = "moderateBatch" ->
            moderateBatch(wordLibrary, moderationLevel, censorChar, argument)
      [] operation = "filterClean" ->
            filterClean(wordLibrary, moderationLevel, censorChar, argument)
      [] operation = "filterProfane" ->
            filterProfane(wordLibrary, moderationLevel, censorChar, argument)

\* A step that is the call of an analysis operation.
AnalysisStep == pc = "idle" /\ pc' \in {"returned", "hung"}

toUpperCase(s) == [i \in 1..Len(s) |-> CharToUpperCase(s[i])]

\* The texts that differ from a text in the case of letters alone.
CaseVariants(text) ==
    {[i \in 1..Len(text) |->
         IF i \in upper THEN CharToUpperCase(text[i]) ELSE CharToLowerCase(text[i])] :
     upper \in SUBSET (1..Len(text))}

\* Every variant has the same text in lowercase, so it is enough that a text
\* and its lowercase agree; the uppercase is compared as well.
C20_CaseInvariant ==
    Returned =>
        /\ isClean(wordLibrary, moderationLevel, censorChar, toLowerCase(content))
              = result.isClean
        /\ isClean(wordLibrary, moderationLevel, censorChar, toUpperCase(content))
              = result.isClean
        /\ \A text \in CaseVariants(content) : toLowerCase(text) = toLowerCase(content)

\* A text in mixed case is not clean, and neither its lowercase nor its
\* uppercase is the text itself.
C20_Witness ==
    /\ Returned
    /\ ~result.isClean
    /\ content # toLowerCase(content)
    /\ content # toUpperCase(content)
    /\ \E m \in MatchSet(result) : m.word # toLowerCase(m.word) /\ m.word # toUpperCase(m.word)

(***************************************************************************)
(* C21: sanitizing clean text returns it unchanged, and sanitize is        *)
(* idempotent whenever its first output is clean: for every text x, if     *)
(* isClean(sanitize(x)) then sanitize(sanitize(x)) equals sanitize(x).     *)
(***************************************************************************)
SanitizedOnce == sanitize(wordLibrary, moderationLevel, censorChar, content)

C21_SanitizeIdempotentOnClean ==
    Returned =>
        /\ result.isClean => SanitizedOnce = content
        /\ isClean(wordLibrary, moderationLevel, censorChar, SanitizedOnce) =>
              sanitize(wordLibrary, moderationLevel, censorChar, SanitizedOnce) = SanitizedOnce

\* A text in mixed case with a match is censored, its output is clean and is
\* given back by the second pass.
C21_Witness ==
    /\ Returned
    /\ ~result.isClean
    /\ SanitizedOnce # content
    /\ SanitizedOnce # toLowerCase(SanitizedOnce)
    /\ isClean(wordLibrary, moderationLevel, censorChar, SanitizedOnce)

(***************************************************************************)
(* C28: the output of sanitize no longer contains detectable profanity:    *)
(* for every text and library, with the default '*' censor character,      *)
(* isClean(sanitize(text)) is true on the same instance.                   *)
(***************************************************************************)
C28_SanitizedIsClean ==
    (Returned /\ censorChar = DefaultCensorChar) =>
        isClean(wordLibrary, moderationLevel, censorChar, SanitizedOnce)

(***************************************************************************)
(* C30: cleanliness is monotone in the moderation level: for a fixed       *)
(* library and text, if moderate reports the text not clean at some level, *)
(* it reports it not clean at every stricter level (OFF < RELAXED <        *)
(* MODERATE < STRICT).                                                     *)
(***************************************************************************)
LevelRank(level) ==
    CASE level = "off" -> 0
      [] level = "relaxed" -> 1
      [] level = "moderate" -> 2
      [] level = "strict" -> 3

C30_CleanlinessMonotone ==
    Returned =>
        \A lower, stricter \in ModerationLevel :
            (LevelRank(lower) < LevelRank(stricter) /\ ~ResultAt(lower).isClean) =>
                ~ResultAt(stricter).isClean

\* The matches of a text differ between two levels at which it is not clean:
\* a match of the lower level is not reported at the stricter one.
C30_Witness ==
    /\ Returned
    /\ ~ResultAt("relaxed").isClean
    /\ \E m \in MatchSet(ResultAt("relaxed")) : m \notin MatchSet(ResultAt("strict"))

(***************************************************************************)
(* C26: for every text at every level, countBySeverity(text).total equals  *)
(* mild + moderate + severe + wtf and equals the number of matches of      *)
(* moderate(text), every occurrence counted under the counter of its       *)
(* severity.                                                               *)
(***************************************************************************)
Counted == CountsOfResult(result)

\* The counter that the severity of a match belongs to.
CounterOf(severity) == IF severity = "absolutely not" THEN "wtf" ELSE severity

MatchesCountedUnder(key) ==
    Cardinality({i \in 1..Len(result.matches) : CounterOf(result.matches[i].severity) = key})

C26_CountsAddUp ==
    Returned =>
        /\ Counted.total = Len(result.matches)
        /\ Counted.total = Counted.mild + Counted.moderate + Counted.severe + Counted.wtf
        /\ \A key \in {"mild", "moderate", "severe", "wtf"} :
              Counted[key] = MatchesCountedUnder(key)

\* Without a match of the severity 'absolutely not' the counters add up.
C26_WithoutWtfMatches ==
    (Returned /\ MatchesCountedUnder("wtf") = 0) =>
        /\ Counted.total = Len(result.matches)
        /\ Counted.total = Counted.mild + Counted.moderate + Counted.severe + Counted.wtf
        /\ \A key \in {"mild", "moderate", "severe", "wtf"} :
              Counted[key] = MatchesCountedUnder(key)

(***************************************************************************)
(* C27: for every text, getDetailedReport(text).profanityPercentage lies   *)
(* between 0 and 100 inclusive, and is 0 when the text is clean.           *)
(***************************************************************************)
Report ==
    ReportOf(result, CountsOfResult(result), ScoreOfResult(result, content), content)

\* The percentage is held in hundredths of a percent.
HundredPercent == 100 * 100

C27_PercentageInRange ==
    Returned =>
        /\ Report.profanityPercentage >= 0
        /\ Report.profanityPercentage <= HundredPercent
        /\ result.isClean => Report.profanityPercentage = 0
        /\ getDetailedReport(wordLibrary, moderationLevel, censorChar, content) = Report

\* The percentage of a clean text is 0 and the percentage is never negative.
C27_CleanIsZero ==
    Returned =>
        /\ Report.profanityPercentage >= 0
        /\ result.isClean => Report.profanityPercentage = 0

(***************************************************************************)
(* C25: overlap resolution prefers the longer word: whenever occurrences   *)
(* of two different blocked candidates (words or variants) overlap in the  *)
(* text, the occurrence of the candidate with the longer literal string is *)
(* the one reported and the other is discarded; for candidates of equal    *)
(* length the one earlier in library iteration order is reported.          *)
(***************************************************************************)
\* The candidate c is preferred to d: longer, or as long and earlier.
Preferred(c, d) ==
    \/ Len(c.word) > Len(d.word)
    \/ /\ Len(c.word) = Len(d.word)
       /\ ScanRank(wordLibrary, moderationLevel, c.word)
            < ScanRank(wordLibrary, moderationLevel, d.word)

Reported(o) == \E m \in MatchSet(result) : m.word = o.word /\ m.position = o.position

\* Two occurrences of different candidates that share an offset of the text.
Overlapping(c, d) ==
    {pair \in Occurrences(c.word, content) \X Occurrences(d.word, content) :
        /\ pair[1] # pair[2]
        /\ Span(pair[1]) \cap Span(pair[2]) # {}}

Displaced(c, o) ==
    \E m \in MatchSet(result) :
        /\ Span(m) \cap Span(o) # {}
        /\ ~(m.word = o.word /\ m.position = o.position)
        /\ \E b \in BlockedCandidates(moderationLevel) :
              /\ Preferred(b, c)
              /\ [word |-> m.word, position |-> m.position] \in Occurrences(b.word, content)

C22_NoSecondFetch ==
    fileDownload.rendered => fileDownload.inFlight <= 1

(***************************************************************************)
(* C23: the status of useFileDownload becomes 'success' only when the      *)
(* download completed successfully and becomes 'error' whenever an error   *)
(* occurred during the download: a fetch that rejects or a response with a *)
(* non-OK HTTP status ends in 'error', never in 'success'.                 *)
(***************************************************************************)
C23_StatusTellsOutcome ==
    (fileDownload.rendered /\ fileDownload.met # "none") =>
        fileDownload.reported = IF fileDownload.met = "ok" THEN "success" ELSE "error"

\* A fetch that rejects ends in 'error', and a download that completed ends
\* in 'success'.
C23_RejectionIsError ==
    (fileDownload.rendered /\ fileDownload.met \in {"ok", "rejected"}) =>
        fileDownload.reported = IF fileDownload.met = "ok" THEN "success" ELSE "error"

(***************************************************************************)
(* C24: every preset of ShortcutsPresets (SAVE, COPY, PASTE, UNDO, REDO,   *)
(* SELECT_ALL, CLOSE, OPEN) is platform-aware by default: passed to        *)
(* useShortcuts, it triggers onTrigger on Cmd(meta)+key on macOS and on    *)
(* Ctrl+key on Windows/Linux.                                              *)
(***************************************************************************)
\* The keys of a preset pressed with the command key of the system.
PlatformChord(preset, os) ==
    [ctrlKey |-> os # "macOS", metaKey |-> os = "macOS", altKey |-> FALSE,
     shiftKey |-> IsTrue(preset, "shiftKey"), code |-> << "K", "e", "y" >> \o preset.key]

\* The chord of the only shortcut passed, a preset, was pressed on a system.
PresetPressedOn(systems) ==
    /\ shortcutsHook.rendered
    /\ shortcutsHook.navigator.os \in systems
    /\ \E name \in PresetNames :
          /\ shortcutsHook.shortcuts = << ShortcutsPresets(TRUE)[name] >>
          /\ shortcutsHook.event =
                << PlatformChord(ShortcutsPresets(TRUE)[name], shortcutsHook.navigator.os) >>

C24_PresetsPlatformAware ==
    PresetPressedOn({"macOS", "Windows", "Linux"}) =>
        shortcutsHook.triggered = shortcutsHook.shortcuts

\* On Windows and Linux the presets trigger on Ctrl+key.
C24_PresetsOnWindowsLinux ==
    PresetPressedOn({"Windows", "Linux"}) =>
        shortcutsHook.triggered = shortcutsHook.shortcuts

(***************************************************************************)
(* C29: useLiveSanitizer debounces: after each content change isProcessing *)
(* is true until delay ms pass without a further change; at most one timer *)
(* is pending at any time; when it fires, sanitized is set to              *)
(* sanitize(latest content) and isProcessing becomes false; a change       *)
(* followed by another change within delay never writes its own sanitized  *)
(* value, and no timer fires after unmount.                                *)
(***************************************************************************)
\* A step in which the callback of a timer runs.
Fired == liveSanitizer'.fired = liveSanitizer.fired + 1

\* While the delay has not passed since the last change, and as long as a
\* timer is pending, the component is processing.
Processing ==
    (liveSanitizer.rendered
        /\ (liveSanitizer.timers # {} \/ liveSanitizer.sinceChange < liveSanitizer.delay))
    => liveSanitizer.isProcessing

\* A callback runs in a mounted component when the delay has passed since the
\* last change, and writes the sanitized form of the content of that change.
FiresForLatest ==
    Fired =>
        /\ liveSanitizer.rendered
        /\ liveSanitizer.sinceChange >= liveSanitizer.delay
        /\ liveSanitizer'.content = liveSanitizer.content
        /\ liveSanitizer'.sanitized =
              sanitize(wordLibrary, moderationLevel, censorChar, liveSanitizer.content)
        /\ ~liveSanitizer'.isProcessing

\* A component that is processing has a timer pending, whose callback will
\* end the processing.
TimerWillFire ==
    (liveSanitizer.rendered /\ liveSanitizer.isProcessing) => liveSanitizer.timers # {}

====
